---- MODULE Spec2Model ----
(***************************************************************************)
(* Verification model of the Scout query-compilation pipeline              *)
(* (nl-poc/app): the canonicalization subsystem (CanonicalStore,           *)
(* Canonicalizer, CanonicalWatcher, admin promote handler), the plan       *)
(* resolver, the SQL guardrail enforcer and the NQL validator.             *)
(*                                                                         *)
(* Strings are sequences of one-character strings, so that strip(),        *)
(* lower(), startswith() and the "%" test are computed, not assumed.       *)
(***************************************************************************)
EXTENDS Integers, Sequences, FiniteSets, TLC

None == "None"

(***************************************************************************)
(* Python string helpers                                                   *)
(***************************************************************************)

\* str.lower() on one character
UpperLetters ==
    <<"A", "B", "C", "D", "E", "F", "G", "H", "I", "J", "K", "L", "M",
      "N", "O", "P", "Q", "R", "S", "T", "U", "V", "W", "X", "Y", "Z">>

LowerLetters ==
    <<"a", "b", "c", "d", "e", "f", "g", "h", "i", "j", "k", "l", "m",
      "n", "o", "p", "q", "r", "s", "t", "u", "v", "w", "x", "y", "z">>

LowerChar(c) ==
    IF \E i \in 1..Len(UpperLetters) : UpperLetters[i] = c
    THEN LowerLetters[CHOOSE i \in 1..Len(UpperLetters) : UpperLetters[i] = c]
    ELSE c

\* str.lower()
Lower(s) == [i \in 1..Len(s) |-> LowerChar(s[i])]

RECURSIVE LStrip(_)
LStrip(s) == IF s # <<>> /\ Head(s) = " " THEN LStrip(Tail(s)) ELSE s

RECURSIVE RStrip(_)
RStrip(s) ==
    IF s # <<>> /\ s[Len(s)] = " " THEN RStrip(SubSeq(s, 1, Len(s) - 1)) ELSE s

\* str.strip()
Strip(s) == RStrip(LStrip(s))

\* "c in s" for a one-character c
HasChar(s, c) == \E i \in 1..Len(s) : s[i] = c

\* s.startswith(prefix)
StartsWith(s, prefix) ==
    /\ Len(prefix) <= Len(s)
    /\ SubSeq(s, 1, Len(prefix)) = prefix

\* _normalise(value): value.strip().lower()
Normalise(s) == Lower(Strip(s))

(***************************************************************************)
(* Bounds and program constants                                            *)
(***************************************************************************)

\* number of threads that call CanonicalStore.promote, each once
NumPromoters == 3

\* canonical_meta is seeded with ('version', 1)
InitialVersion == 1

Promoters == 1..NumPromoters

\* the promoter that runs inside the admin handler canonical_promote
\* (promote, then load_mappings, then Canonicalizer.load)
AdminPromoters == {1}

\* arguments of each promote() call: pairwise distinct synonyms; the first
\* two differ only in letter case
PromoteArgs(p) ==
    CASE p = 1 -> [dim |-> "area", synonym |-> <<"a">>, canonical |-> "Central"]
      [] p = 2 -> [dim |-> "area", synonym |-> <<"A">>, canonical |-> "Harbor"]
      [] p = 3 -> [dim |-> "area", synonym |-> <<"b">>, canonical |-> "Mission"]
      [] p = 4 -> [dim |-> "weapon", synonym |-> <<"c">>, canonical |-> "Knife"]
      [] OTHER -> [dim |-> "weapon", synonym |-> <<"b", "c">>, canonical |-> "Firearm"]

\* threads that call Canonicalizer.load: the watcher thread (_run) and the
\* event-loop thread running canonical_promote
LoadThreads == {"watcher", "admin"}

\* a request thread that calls Canonicalizer.resolve or reads .version
Readers == {"reader"}

\* versions passed to Canonicalizer.load in SpecLock
MaxLoadVersion == 2

\* mappings passed to Canonicalizer.load in SpecLock
MappingChoices ==
    { {},
      {<<"area", <<"a">>, "Central">>},
      {<<"area", <<"a">>, "Harbor">>, <<"weapon", <<"a">>, "Knife">>},
      {<<"area", <<"a", "%">>, "Central">>, <<"weapon", <<"%">>, "Knife">>} }

\* longest raw string handed to Canonicalizer.resolve in SpecResolve
MaxRawLen == 3

\* characters of those raw strings
RawAlphabet == {"a", "A", "%", " "}

\* all strings over an alphabet up to a length
Strings(alphabet, n) == UNION {[1..k -> alphabet] : k \in 0..n}

VARIABLES
    rows,        \* canonical_map table, in insertion (id) order
    meta_v,      \* canonical_meta row k='version'
    storeUp,     \* whether duckdb.connect() on the store file succeeds
    ppc,         \* per promoter: position inside promote() / canonical_promote
    pexisting,   \* per promoter: id found by the SELECT id ... (0: none)
    pcur,        \* per promoter: value read by _bump_version's SELECT
    pret,        \* per promoter: version returned by promote() (0: not yet)
    pmaps,       \* admin handler local: result of store.load_mappings()
    wpc,         \* watcher thread position
    wversion,    \* watcher local: version
    wmappings,   \* watcher local: mappings
    c_version,   \* Canonicalizer._version
    c_mappings,  \* Canonicalizer._mappings, as a set of <<dim, key, canonical>>
    c_lock,      \* Canonicalizer._lock: the thread that holds it, or None
    lpc,         \* per thread inside Canonicalizer.load: position
    largs,       \* per thread inside Canonicalizer.load: (mappings, version)
    lnew,        \* per thread inside load: the dict built by the comprehension
    rpc,         \* per reader thread: position in resolve() / version
    rcall,       \* per reader thread: the call it is in, with its arguments
    rlookup,     \* per reader thread: the copy returned by _get_dim_map
    rres,        \* per reader thread: what its last call returned
    lastLoaded,  \* history: the (mappings, version) of the last finished load
    rs_plan,     \* the plan handed to PlanResolver.resolve
    rs_out,      \* what PlanResolver.resolve returned or raised (None: not run)
    rs_calls,    \* history: the executor lookups made by that resolve call
    g_stmt,      \* the statement whose SQL text is handed to guardrails.enforce
    g_limit,     \* plan["limit"] handed to guardrails.enforce
    g_out,       \* outcome of guardrails.enforce (None: not run)
    vp_nql,      \* the nql dict handed to guardrails.validate_plan
    vp_sql,      \* the statement whose SQL text is handed to validate_plan
    vp_stats,    \* preview_stats handed to validate_plan
    vp_cfg,      \* config handed to validate_plan
    vp_out,      \* what validate_plan returned
    nq_in,       \* the NQLQuery handed to validate_nql
    nq_out,      \* what the first validate_nql call returned or raised
    nq_cur,      \* what the latest validate_nql call returned
    nq_runs,     \* number of validate_nql calls made so far
    nq_caller,   \* the caller's NQLQuery object as it is after the latest call
    nq_compiled, \* what compile_nql_query made of the first validated query
    tk_plan,     \* the plan handed to sql_builder.build
    tk_base,     \* the rows of la_crime_raw the built query runs on
    tk_query,    \* the query build returned, by its clauses
    tk_out,      \* what running the query returned
    w_thread,    \* CanonicalWatcher._thread: the thread it refers to, or None
    w_stop,      \* CanonicalWatcher._stop: whether the Event is set
    tpc,         \* per watcher thread object: position in _run
    w_caller,    \* the thread that calls start() and stop(): its position
    w_asked,     \* history: the threads a stop() call has asked to stop
    w_resumed    \* history: the threads that polled again after that

storeVars == <<rows, meta_v, storeUp>>
promoterVars == <<ppc, pexisting, pcur, pret, pmaps>>
lifecycleVars == <<w_thread, w_stop, tpc, w_caller, w_asked, w_resumed>>
watcherVars == <<wpc, wversion, wmappings, lifecycleVars>>
canonVars == <<c_version, c_mappings>>
lockVars == <<c_lock, lpc, largs, lnew, rpc, rcall, rlookup, rres, lastLoaded>>
resolverVars == <<rs_plan, rs_out, rs_calls>>
guardVars == <<g_stmt, g_limit, g_out, vp_nql, vp_sql, vp_stats, vp_cfg, vp_out,
               tk_plan, tk_base, tk_query, tk_out>>
nqlVars == <<nq_in, nq_out, nq_cur, nq_runs, nq_caller, nq_compiled>>
requestVars == <<resolverVars, guardVars, nqlVars>>
vars == <<storeVars, promoterVars, watcherVars, canonVars, lockVars, requestVars>>

(***************************************************************************)
(* CanonicalStore                                                          *)
(***************************************************************************)

\* ids of the rows matched by
\* SELECT id FROM canonical_map WHERE dim = ? AND lower(synonym) = lower(?)
MatchingIds(tbl, dim, synonym) ==
    {i \in 1..Len(tbl) : tbl[i].dim = dim /\ Lower(tbl[i].synonym) = Lower(synonym)}

Min(S) == CHOOSE x \in S : \A y \in S : x <= y

\* fetchone() of that SELECT: the first row of the scan, 0 when there is none
SelectExisting(tbl, dim, synonym) ==
    IF MatchingIds(tbl, dim, synonym) = {} THEN 0
    ELSE Min(MatchingIds(tbl, dim, synonym))

\* load_mappings(): rows are folded in scan order into
\* mappings[dim][_normalise(synonym)] = canonical, later rows overwriting
RECURSIVE FoldMappings(_, _)
FoldMappings(tbl, acc) ==
    IF tbl = <<>> THEN acc
    ELSE LET r == Head(tbl)
             k == Normalise(r.synonym)
             kept == {t \in acc : ~(t[1] = r.dim /\ t[2] = k)}
         IN FoldMappings(Tail(tbl), kept \cup {<<r.dim, k, r.canonical>>})

LoadMappings(tbl) == FoldMappings(tbl, {})

\* get_version(): SELECT v FROM canonical_meta WHERE k = 'version'
GetVersion == meta_v

(***************************************************************************)
(* Canonicalizer.load: both fields are assigned while the lock is held, so *)
(* other threads see the assignment as one step (the lock itself is        *)
(* modelled step by step in SpecLock below).                               *)
(***************************************************************************)
CanonLoad(mappings, version) ==
    /\ c_mappings' = mappings
    /\ c_version' = version

(***************************************************************************)
(* Canonicalizer.resolve(dim, raw) on the mapping a reader got from        *)
(* _get_dim_map. Python values are tagged: [type |-> "str", s |-> chars]   *)
(* or [type |-> "int", n |-> number].                                      *)
(***************************************************************************)
PyStr(s) == [type |-> "str", s |-> s]
PyInt(n) == [type |-> "int", n |-> n]

WildcardChar == "%"

Resolution(value, applied, like_bypass, canonical, synonym) ==
    [value |-> value, applied |-> applied, like_bypass |-> like_bypass,
     canonical |-> canonical, synonym |-> synonym]

\* lookup.get(normalised): the canonical stored under the key, None if absent
DimMapGet(mappings, dim, key) ==
    IF \E t \in mappings : t[1] = dim /\ t[2] = key
    THEN (CHOOSE t \in mappings : t[1] = dim /\ t[2] = key)[3]
    ELSE None

\* resolve() with the mapping lookup made before the wildcard test
CanonResolve_LookupFirst(mappings, dim, raw) ==
    IF raw.type # "str"
    THEN Resolution(raw, FALSE, FALSE, None, None)
    ELSE LET token == Strip(raw.s) IN
         IF token = <<>>
         THEN Resolution(raw, FALSE, FALSE, None, None)
         ELSE LET entry == DimMapGet(mappings, dim, Normalise(token)) IN
              IF entry # None
              THEN LET canonical == IF entry = "" THEN raw ELSE entry IN
                   Resolution(canonical, TRUE, FALSE, canonical, token)
              ELSE Resolution(raw, FALSE, HasChar(token, WildcardChar), None, None)

CanonResolve(mappings, dim, raw) ==
    IF raw.type # "str"
    THEN Resolution(raw, FALSE, FALSE, None, None)
    ELSE LET token == Strip(raw.s) IN
         IF token = <<>>
         THEN Resolution(raw, FALSE, FALSE, None, None)
         ELSE IF HasChar(token, WildcardChar)
         THEN Resolution(raw, FALSE, TRUE, None, None)
         ELSE LET entry == DimMapGet(mappings, dim, Normalise(token)) IN
              IF entry = None
              THEN Resolution(raw, FALSE, FALSE, None, None)
              ELSE LET canonical == IF entry = "" THEN raw ELSE entry IN
                   Resolution(canonical, TRUE, FALSE, canonical, token)

(***************************************************************************)
(* CanonicalStore.promote, one action per SQL statement: every             *)
(* conn.execute() runs in its own autocommit transaction.                  *)
(***************************************************************************)

\* duckdb.connect() raises: promote() ends with the exception
PromoteConnectFail(p) ==
    /\ ppc[p] = "start"
    /\ ~storeUp
    /\ ppc' = [ppc EXCEPT ![p] = "failed"]
    /\ UNCHANGED <<pexisting, pcur, pret, pmaps, storeVars, watcherVars, canonVars, lockVars, requestVars>>

\* existing = conn.execute("SELECT id ...").fetchone()
PromoteSelect(p) ==
    /\ ppc[p] = "start"
    /\ storeUp
    /\ pexisting' = [pexisting EXCEPT ![p] =
           SelectExisting(rows, PromoteArgs(p).dim, PromoteArgs(p).synonym)]
    /\ ppc' = [ppc EXCEPT ![p] = "selected"]
    /\ UNCHANGED <<pcur, pret, pmaps, storeVars, watcherVars, canonVars, lockVars, requestVars>>

\* the table after the UPDATE ... WHERE id = ? / INSERT INTO canonical_map
Upsert(tbl, existing, args) ==
    IF existing # 0
    THEN [tbl EXCEPT ![existing] =
             [@ EXCEPT !.synonym = args.synonym, !.canonical = args.canonical]]
    ELSE Append(tbl, args)

PromoteUpsert(p) ==
    /\ ppc[p] = "selected"
    /\ rows' = Upsert(rows, pexisting[p], PromoteArgs(p))
    /\ ppc' = [ppc EXCEPT ![p] = "written"]
    /\ UNCHANGED <<pexisting, pcur, pret, pmaps, meta_v, storeUp, watcherVars, canonVars, lockVars, requestVars>>

\* _bump_version: current = conn.execute("SELECT v ...").fetchone()
BumpSelect(p) ==
    /\ ppc[p] = "written"
    /\ pcur' = [pcur EXCEPT ![p] = meta_v]
    /\ ppc' = [ppc EXCEPT ![p] = "read"]
    /\ UNCHANGED <<pexisting, pret, pmaps, storeVars, watcherVars, canonVars, lockVars, requestVars>>

\* _bump_version: next_value = current + 1; UPDATE canonical_meta SET v = ?;
\* promote() returns next_value
BumpUpdate(p) ==
    /\ ppc[p] = "read"
    /\ meta_v' = pcur[p] + 1
    /\ pret' = [pret EXCEPT ![p] = pcur[p] + 1]
    /\ pcur' = [pcur EXCEPT ![p] = 0]
    /\ pexisting' = [pexisting EXCEPT ![p] = 0]
    /\ ppc' = [ppc EXCEPT ![p] = IF p \in AdminPromoters THEN "promoted" ELSE "done"]
    /\ UNCHANGED <<pmaps, rows, storeUp, watcherVars, canonVars, lockVars, requestVars>>

(***************************************************************************)
(* canonical_promote (admin handler), after store.promote() returned:      *)
(* canonicalizer.load(store.load_mappings(), version)                      *)
(***************************************************************************)
AdminLoadMappings(p) ==
    /\ ppc[p] = "promoted"
    /\ IF storeUp
       THEN /\ pmaps' = [pmaps EXCEPT ![p] = LoadMappings(rows)]
            /\ ppc' = [ppc EXCEPT ![p] = "mapped"]
       ELSE /\ pmaps' = pmaps
            /\ ppc' = [ppc EXCEPT ![p] = "failed"]
    /\ UNCHANGED <<pexisting, pcur, pret, storeVars, watcherVars, canonVars, lockVars, requestVars>>

AdminCanonLoad(p) ==
    /\ ppc[p] = "mapped"
    /\ CanonLoad(pmaps[p], pret[p])
    /\ pmaps' = [pmaps EXCEPT ![p] = {}]
    /\ ppc' = [ppc EXCEPT ![p] = "done"]
    /\ UNCHANGED <<pexisting, pcur, pret, storeVars, watcherVars, lockVars, requestVars>>

(***************************************************************************)
(* CanonicalWatcher                                                        *)
(***************************************************************************)

\* start(): _initial_load's version = self._store.get_version()
StartGetVersion ==
    /\ wpc = "notstarted"
    /\ storeUp
    /\ wversion' = GetVersion
    /\ wpc' = "boot_version"
    /\ UNCHANGED <<lifecycleVars, wmappings, storeVars, promoterVars, canonVars, lockVars, requestVars>>

\* start(): _initial_load's mappings = self._store.load_mappings(); an
\* exception leaves start() before the thread is created
StartLoadMappings ==
    /\ wpc = "boot_version"
    /\ IF storeUp
       THEN /\ wmappings' = LoadMappings(rows)
            /\ wversion' = wversion
            /\ wpc' = "boot_mappings"
       ELSE /\ wmappings' = {}
            /\ wversion' = 0
            /\ wpc' = "notstarted"
    /\ UNCHANGED <<lifecycleVars, storeVars, promoterVars, canonVars, lockVars, requestVars>>

\* start(): canonicalizer.load(mappings, version), then the thread starts
\* and blocks in self._stop.wait(self._interval)
StartThread ==
    /\ wpc = "boot_mappings"
    /\ CanonLoad(wmappings, wversion)
    /\ wmappings' = {}
    /\ wversion' = 0
    /\ wpc' = "waiting"
    /\ UNCHANGED <<lifecycleVars, storeVars, promoterVars, lockVars, requestVars>>

\* _run: the wait times out, version = self._store.get_version(); an
\* exception is not caught anywhere in _run, so it ends the thread
WatcherGetVersion ==
    /\ wpc = "waiting"
    /\ IF storeUp
       THEN /\ wversion' = GetVersion
            /\ wpc' = "polled"
       ELSE /\ wversion' = wversion
            /\ wpc' = "dead"
    /\ UNCHANGED <<lifecycleVars, wmappings, storeVars, promoterVars, canonVars, lockVars, requestVars>>

\* _run: if version == self._canonicalizer.version: continue
WatcherCompare ==
    /\ wpc = "polled"
    /\ IF wversion = c_version
       THEN /\ wpc' = "waiting"
            /\ wversion' = 0
       ELSE /\ wpc' = "changed"
            /\ wversion' = wversion
    /\ UNCHANGED <<lifecycleVars, wmappings, storeVars, promoterVars, canonVars, lockVars, requestVars>>

\* _run: mappings = self._store.load_mappings()
WatcherLoadMappings ==
    /\ wpc = "changed"
    /\ IF storeUp
       THEN /\ wmappings' = LoadMappings(rows)
            /\ wversion' = wversion
            /\ wpc' = "loaded"
       ELSE /\ wmappings' = wmappings
            /\ wversion' = 0
            /\ wpc' = "dead"
    /\ UNCHANGED <<lifecycleVars, storeVars, promoterVars, canonVars, lockVars, requestVars>>

\* _run: self._canonicalizer.load(mappings, version)
WatcherLoad ==
    /\ wpc = "loaded"
    /\ CanonLoad(wmappings, wversion)
    /\ wmappings' = {}
    /\ wversion' = 0
    /\ wpc' = "waiting"
    /\ UNCHANGED <<lifecycleVars, storeVars, promoterVars, lockVars, requestVars>>

(***************************************************************************)
(* Environment: the store file becomes unavailable and available again     *)
(***************************************************************************)
StoreDown ==
    /\ storeUp
    /\ storeUp' = FALSE
    /\ UNCHANGED <<rows, meta_v, promoterVars, watcherVars, canonVars, lockVars, requestVars>>

StoreUp ==
    /\ ~storeUp
    /\ storeUp' = TRUE
    /\ UNCHANGED <<rows, meta_v, promoterVars, watcherVars, canonVars, lockVars, requestVars>>

\* no thread is inside a Canonicalizer method
LockIdle ==
    /\ c_lock = None
    /\ lpc = [t \in LoadThreads |-> "idle"]
    /\ largs = [t \in LoadThreads |-> None]
    /\ lnew = [t \in LoadThreads |-> None]
    /\ rpc = [r \in Readers |-> "idle"]
    /\ rcall = [r \in Readers |-> None]
    /\ rlookup = [r \in Readers |-> None]
    /\ rres = [r \in Readers |-> None]
    /\ lastLoaded = <<{}, 0>>

(***************************************************************************)
(* Specification of the canonicalization subsystem                         *)
(***************************************************************************)
\* most threading.Thread objects one CanonicalWatcher creates
MaxThreads == 3

WatcherThreads == 1..MaxThreads

\* self._thread = None
NoThread == 0

\* CanonicalWatcher.__init__: no thread, the Event not set
LifecycleIdle ==
    /\ w_thread = NoThread
    /\ w_stop = FALSE
    /\ tpc = [t \in WatcherThreads |-> "unborn"]
    /\ w_caller = "idle"
    /\ w_asked = {}
    /\ w_resumed = {}

\* a fresh store file, no promote() called, no watcher started
StoreIdle ==
    /\ LifecycleIdle
    /\ rows = <<>>
    /\ meta_v = InitialVersion
    /\ storeUp = TRUE
    /\ ppc = [p \in Promoters |-> "start"]
    /\ pexisting = [p \in Promoters |-> 0]
    /\ pcur = [p \in Promoters |-> 0]
    /\ pret = [p \in Promoters |-> 0]
    /\ pmaps = [p \in Promoters |-> {}]
    /\ wpc = "notstarted"
    /\ wversion = 0
    /\ wmappings = {}

\* Canonicalizer.__init__
CanonInit ==
    /\ c_version = 0
    /\ c_mappings = {}

\* no request is being compiled
NotRun == [status |-> "not run"]
ResolverIdle == rs_plan = None /\ rs_out = NotRun /\ rs_calls = <<>>
PlanGuardIdle ==
    vp_nql = None /\ vp_sql = None /\ vp_stats = None /\ vp_cfg = None /\ vp_out = NotRun
TopKIdle == tk_plan = None /\ tk_base = None /\ tk_query = NotRun /\ tk_out = NotRun
GuardIdle == g_stmt = None /\ g_limit = None /\ g_out = None /\ PlanGuardIdle /\ TopKIdle
NqlIdle ==
    nq_in = None /\ nq_out = NotRun /\ nq_cur = NotRun /\ nq_runs = 0 /\ nq_caller = NotRun
    /\ nq_compiled = NotRun
RequestIdle == ResolverIdle /\ GuardIdle /\ NqlIdle

Init ==
    /\ StoreIdle
    /\ CanonInit
    /\ LockIdle
    /\ RequestIdle

PromoterStep ==
    \E p \in Promoters :
        \/ PromoteConnectFail(p)
        \/ PromoteSelect(p)
        \/ PromoteUpsert(p)
        \/ BumpSelect(p)
        \/ BumpUpdate(p)
        \/ AdminLoadMappings(p)
        \/ AdminCanonLoad(p)

WatcherThreadStep ==
    \/ WatcherGetVersion
    \/ WatcherCompare
    \/ WatcherLoadMappings
    \/ WatcherLoad

Next ==
    \/ PromoterStep
    \/ StartGetVersion
    \/ StartLoadMappings
    \/ StartThread
    \/ WatcherThreadStep
    \/ StoreDown
    \/ StoreUp

Spec == Init /\ [][Next]_vars

\* The watcher thread is scheduled by the operating system and its wait
\* times out after the poll interval: its next step is always eventually
\* taken.
FairSpec == Spec /\ WF_vars(WatcherThreadStep)

(***************************************************************************)
(* Claims about the canonicalization subsystem                             *)
(***************************************************************************)

\* promote() calls that have returned a version
Returned == {p \in Promoters : pret[p] # 0}

\* promote() calls that have been made
Called == {p \in Promoters : ppc[p] # "start"}

\* the synonyms of the calls in S are pairwise distinct, even ignoring case
DistinctSynonyms(S) ==
    \A p, q \in S :
        p # q => Normalise(PromoteArgs(p).synonym) # Normalise(PromoteArgs(q).synonym)

\* no promote() call is between its first and its last SQL statement
NoPromoteInFlight ==
    \A p \in Promoters : ppc[p] \notin {"selected", "written", "read"}

\* C1: N concurrent promote() calls to N distinct synonyms leave the version
\* counter at initial version + N, and the N calls return N distinct
\* versions (no increment is lost).
C1_NoLostUpdate ==
    (NoPromoteInFlight /\ DistinctSynonyms(Called)) =>
        /\ meta_v = InitialVersion + Cardinality(Returned)
        /\ \A p, q \in Returned : p # q => pret[p] # pret[q]

\* C2: the Canonicalizer's cached version never regresses: every load
\* (by a watcher poll tick or by the admin handler) installs a version
\* greater than or equal to the one it replaces.
C2_VersionNeverRegresses ==
    [][(WatcherLoad \/ \E p \in AdminPromoters : AdminCanonLoad(p))
          => c_version' >= c_version]_vars

\* what the store maps the promoted synonym of p to (store.current_mapping)
StoreCanonical(p) ==
    DimMapGet(LoadMappings(rows), PromoteArgs(p).dim,
              Normalise(PromoteArgs(p).synonym))

\* promote() of p has completed, no promotion is in progress, the store is
\* available and the watcher thread is alive
Quiet(p) ==
    /\ pret[p] # 0
    /\ \A q \in Promoters : ppc[q] \in {"start", "done", "failed"}
    /\ storeUp
    /\ wpc \in {"waiting", "polled", "changed", "loaded"}

\* the cache has caught up with the store and resolves the promoted synonym
Fresh(p) ==
    /\ c_version = GetVersion
    /\ LET r == CanonResolve(c_mappings, PromoteArgs(p).dim,
                             PyStr(PromoteArgs(p).synonym))
       IN r.applied /\ r.value = StoreCanonical(p)

\* promoters whose (dim, lower(synonym)) key no other promoter writes, so
\* that the canonical value they promote is not overwritten by anyone
Unshared ==
    {p \in Promoters :
        \A q \in Promoters \ {p} :
            \/ PromoteArgs(q).dim # PromoteArgs(p).dim
            \/ Normalise(PromoteArgs(q).synonym) # Normalise(PromoteArgs(p).synonym)}

\* C4: after a promote() completes, if no further promotion happens and the
\* store stays available, the fairly scheduled watcher eventually brings the
\* Canonicalizer to the store's version and resolve() returns the promoted
\* canonical value with applied = true.  (Stays quiet forever => eventually
\* fresh, for every promoter.)
C4_EventuallyFresh ==
    \A p \in Unshared : []<>(~Quiet(p) \/ Fresh(p))

\* C5: a failure of get_version() or load_mappings() during a poll tick does
\* not end the watcher thread; it polls again on the next tick.
C5_WatcherSurvivesOutage == wpc # "dead"

(***************************************************************************)
(* The Canonicalizer's lock, statement by statement.  load() runs          *)
(*     with self._lock:                                                    *)
(*         self._mappings = {dim: dict(entries) for ...}                   *)
(*         self._version = int(version)                                    *)
(* and version / _get_dim_map read one field inside "with self._lock".     *)
(***************************************************************************)

\* a lock that excludes nobody
LockFree_NoExclusion(t) == TRUE

\* "with self._lock" may be entered by thread t (RLock: free, or held by t)
LockFree(t) == c_lock = None \/ c_lock = t

\* the dict comprehension of load(): a fresh dict with the same content
CopyMappings(m) == {t \in m : TRUE}

\* dict(self._mappings.get(dim, {})) of _get_dim_map
DimMapCopy(m, dim) == {t \in m : t[1] = dim}

LoadCall(t, m, v) ==
    /\ lpc[t] = "idle"
    /\ largs' = [largs EXCEPT ![t] = <<m, v>>]
    /\ lpc' = [lpc EXCEPT ![t] = "acquire"]
    /\ UNCHANGED <<c_lock, lnew, rpc, rcall, rlookup, rres, lastLoaded,
                   requestVars, storeVars, promoterVars, watcherVars, canonVars>>

LoadAcquire(t) ==
    /\ lpc[t] = "acquire"
    /\ LockFree(t)
    /\ c_lock' = t
    /\ lpc' = [lpc EXCEPT ![t] = "locked"]
    /\ UNCHANGED <<largs, lnew, rpc, rcall, rlookup, rres, lastLoaded,
                   requestVars, storeVars, promoterVars, watcherVars, canonVars>>

\* the right-hand side {dim: dict(entries) ...} is evaluated
LoadBuild(t) ==
    /\ lpc[t] = "locked"
    /\ lnew' = [lnew EXCEPT ![t] = CopyMappings(largs[t][1])]
    /\ lpc' = [lpc EXCEPT ![t] = "built"]
    /\ UNCHANGED <<c_lock, largs, rpc, rcall, rlookup, rres, lastLoaded,
                   requestVars, storeVars, promoterVars, watcherVars, canonVars>>

\* self._mappings = <the new dict>
LoadAssignMappings(t) ==
    /\ lpc[t] = "built"
    /\ c_mappings' = lnew[t]
    /\ lnew' = [lnew EXCEPT ![t] = None]
    /\ lpc' = [lpc EXCEPT ![t] = "half"]
    /\ UNCHANGED <<c_version, c_lock, largs, rpc, rcall, rlookup, rres, lastLoaded,
                   requestVars, storeVars, promoterVars, watcherVars>>

\* self._version = int(version)
LoadAssignVersion(t) ==
    /\ lpc[t] = "half"
    /\ c_version' = largs[t][2]
    /\ lastLoaded' = largs[t]
    /\ lpc' = [lpc EXCEPT ![t] = "assigned"]
    /\ UNCHANGED <<c_mappings, c_lock, largs, lnew, rpc, rcall, rlookup, rres,
                   requestVars, storeVars, promoterVars, watcherVars>>

\* the with-block is left
LoadRelease(t) ==
    /\ lpc[t] = "assigned"
    /\ c_lock' = None
    /\ largs' = [largs EXCEPT ![t] = None]
    /\ lpc' = [lpc EXCEPT ![t] = "idle"]
    /\ UNCHANGED <<lnew, rpc, rcall, rlookup, rres, lastLoaded,
                   requestVars, storeVars, promoterVars, watcherVars, canonVars>>

\* resolve() returns before _get_dim_map: raw is no str, is blank, or
\* holds the wildcard
ResolveReturnsEarly(raw) ==
    IF raw.type # "str" THEN TRUE
    ELSE IF Strip(raw.s) = <<>> THEN TRUE
    ELSE HasChar(Strip(raw.s), WildcardChar)

\* canonicalizer.resolve(dim, raw) that returns without reading the mapping
ReaderResolveEarly(r, dim, raw) ==
    /\ rpc[r] = "idle"
    /\ ResolveReturnsEarly(raw)
    /\ rres' = [rres EXCEPT ![r] = CanonResolve({}, dim, raw)]
    /\ UNCHANGED <<c_lock, lpc, largs, lnew, rpc, rcall, rlookup, lastLoaded,
                   requestVars, storeVars, promoterVars, watcherVars, canonVars>>

\* canonicalizer.resolve(dim, raw) that goes on to _get_dim_map
ReaderResolveCall(r, dim, raw) ==
    /\ rpc[r] = "idle"
    /\ ~ResolveReturnsEarly(raw)
    /\ rcall' = [rcall EXCEPT ![r] = [op |-> "resolve", dim |-> dim, raw |-> raw]]
    /\ rres' = [rres EXCEPT ![r] = None]
    /\ rpc' = [rpc EXCEPT ![r] = "acquire"]
    /\ UNCHANGED <<c_lock, lpc, largs, lnew, rlookup, lastLoaded,
                   requestVars, storeVars, promoterVars, watcherVars, canonVars>>

\* canonicalizer.version
ReaderVersionCall(r) ==
    /\ rpc[r] = "idle"
    /\ rcall' = [rcall EXCEPT ![r] = [op |-> "version"]]
    /\ rres' = [rres EXCEPT ![r] = None]
    /\ rpc' = [rpc EXCEPT ![r] = "acquire"]
    /\ UNCHANGED <<c_lock, lpc, largs, lnew, rlookup, lastLoaded,
                   requestVars, storeVars, promoterVars, watcherVars, canonVars>>

ReaderAcquire(r) ==
    /\ rpc[r] = "acquire"
    /\ LockFree(r)
    /\ c_lock' = r
    /\ rpc' = [rpc EXCEPT ![r] = "holding"]
    /\ UNCHANGED <<lpc, largs, lnew, rcall, rlookup, rres, lastLoaded,
                   requestVars, storeVars, promoterVars, watcherVars, canonVars>>

\* return self._version: the field is read and the with-block is left
ReaderReadVersion(r) ==
    /\ rpc[r] = "holding"
    /\ rcall[r].op = "version"
    /\ rres' = [rres EXCEPT ![r] = c_version]
    /\ rcall' = [rcall EXCEPT ![r] = None]
    /\ c_lock' = None
    /\ rpc' = [rpc EXCEPT ![r] = "idle"]
    /\ UNCHANGED <<lpc, largs, lnew, rlookup, lastLoaded,
                   requestVars, storeVars, promoterVars, watcherVars, canonVars>>

\* return dict(self._mappings.get(dim, {})): copied, the with-block is left
ReaderCopyDimMap(r) ==
    /\ rpc[r] = "holding"
    /\ rcall[r].op = "resolve"
    /\ rlookup' = [rlookup EXCEPT ![r] = DimMapCopy(c_mappings, rcall[r].dim)]
    /\ c_lock' = None
    /\ rpc' = [rpc EXCEPT ![r] = "lookup"]
    /\ UNCHANGED <<lpc, largs, lnew, rcall, rres, lastLoaded,
                   requestVars, storeVars, promoterVars, watcherVars, canonVars>>

\* the rest of resolve(), on the copy
ReaderFinish(r) ==
    /\ rpc[r] = "lookup"
    /\ rres' = [rres EXCEPT ![r] = CanonResolve(rlookup[r], rcall[r].dim, rcall[r].raw)]
    /\ rcall' = [rcall EXCEPT ![r] = None]
    /\ rlookup' = [rlookup EXCEPT ![r] = None]
    /\ rpc' = [rpc EXCEPT ![r] = "idle"]
    /\ UNCHANGED <<c_lock, lpc, largs, lnew, lastLoaded,
                   requestVars, storeVars, promoterVars, watcherVars, canonVars>>

\* raw values the reader resolves in SpecLock
LockRaws == {PyStr(<<"a">>), PyStr(<<"A", " ">>), PyStr(<<"%">>), PyInt(7)}
LockDims == {"area", "weapon"}

NextLock ==
    \/ \E t \in LoadThreads, m \in MappingChoices, v \in 1..MaxLoadVersion :
           LoadCall(t, m, v)
    \/ \E t \in LoadThreads : LoadAcquire(t)
    \/ \E t \in LoadThreads : LoadBuild(t)
    \/ \E t \in LoadThreads : LoadAssignMappings(t)
    \/ \E t \in LoadThreads : LoadAssignVersion(t)
    \/ \E t \in LoadThreads : LoadRelease(t)
    \/ \E r \in Readers, d \in LockDims, raw \in LockRaws : ReaderResolveEarly(r, d, raw)
    \/ \E r \in Readers, d \in LockDims, raw \in LockRaws : ReaderResolveCall(r, d, raw)
    \/ \E r \in Readers : ReaderVersionCall(r)
    \/ \E r \in Readers : ReaderAcquire(r)
    \/ \E r \in Readers : ReaderReadVersion(r)
    \/ \E r \in Readers : ReaderCopyDimMap(r)
    \/ \E r \in Readers : ReaderFinish(r)

SpecLock == Init /\ [][NextLock]_vars

\* C3: load() replaces the mapping and the version together under the lock:
\* whenever a reader is inside "with self._lock" (a resolve() or a version
\* read running concurrently with load()), the (mapping, version) it can see
\* is the complete pair of the last finished load, never a new mapping with
\* the old version.
C3_ReadersSeeCompletePair ==
    \A r \in Readers :
        rpc[r] = "holding" => <<c_mappings, c_version>> = lastLoaded

\* a reader holds the lock after one load has finished while a second load,
\* with other arguments, is waiting for the lock
C3_Witness ==
    \E r \in Readers, t \in LoadThreads :
        /\ rpc[r] = "holding"
        /\ lpc[t] = "acquire"
        /\ lastLoaded # <<{}, 0>>
        /\ largs[t] # lastLoaded

(***************************************************************************)
(* Canonicalizer.resolve as a function of its arguments and of the loaded  *)
(* mappings: one request thread, no load() in progress. Init draws what a  *)
(* finished load() left in the Canonicalizer.                              *)
(***************************************************************************)
ResolveRaws == {PyStr(s) : s \in Strings(RawAlphabet, MaxRawLen)} \cup {PyInt(7)}

\* canonicalizer.resolve(dim, raw), run to completion
ResolveCall(r, dim, raw) ==
    /\ rpc[r] = "idle"
    /\ rcall' = [rcall EXCEPT ![r] = [op |-> "resolve", dim |-> dim, raw |-> raw]]
    /\ rres' = [rres EXCEPT ![r] = CanonResolve(DimMapCopy(c_mappings, dim), dim, raw)]
    /\ rpc' = [rpc EXCEPT ![r] = "returned"]
    /\ UNCHANGED <<c_lock, lpc, largs, lnew, rlookup, lastLoaded,
                   requestVars, storeVars, promoterVars, watcherVars, canonVars>>

\* the caller drops the result
ResolveReturn(r) ==
    /\ rpc[r] = "returned"
    /\ rcall' = [rcall EXCEPT ![r] = None]
    /\ rres' = [rres EXCEPT ![r] = None]
    /\ rpc' = [rpc EXCEPT ![r] = "idle"]
    /\ UNCHANGED <<c_lock, lpc, largs, lnew, rlookup, lastLoaded,
                   requestVars, storeVars, promoterVars, watcherVars, canonVars>>

InitResolve ==
    /\ StoreIdle
    /\ c_mappings \in MappingChoices
    /\ c_version = IF c_mappings = {} THEN 0 ELSE InitialVersion
    /\ LockIdle
    /\ RequestIdle

NextResolve ==
    \/ \E r \in Readers, dim \in LockDims, raw \in ResolveRaws : ResolveCall(r, dim, raw)
    \/ \E r \in Readers : ResolveReturn(r)

SpecResolve == InitResolve /\ [][NextResolve]_vars

\* C7: for every dimension and every raw string that contains the wildcard
\* character, whatever mappings are loaded, resolve returns the raw value
\* unchanged with like_bypass = true and applied = false.
C7_WildcardBypass ==
    \A r \in Readers :
        (rpc[r] = "returned" /\ rcall[r].raw.type = "str"
                              /\ HasChar(rcall[r].raw.s, WildcardChar)) =>
            /\ ~rres[r].applied
            /\ rres[r].like_bypass
            /\ rres[r].value = rcall[r].raw

\* a wildcard string whose normalised form is a loaded synonym was resolved
C7_Witness ==
    \E r \in Readers :
        /\ rpc[r] = "returned"
        /\ rcall[r].raw.type = "str"
        /\ HasChar(rcall[r].raw.s, WildcardChar)
        /\ DimMapGet(c_mappings, rcall[r].dim, Normalise(rcall[r].raw.s)) # None
        /\ rres[r].like_bypass

(***************************************************************************)
(* PlanResolver.resolve (app/resolver.py) with the executor lookups it     *)
(* calls (app/executor.py). Plan values are tagged Python values; a date   *)
(* string in ISO format carries its parsed fields.                         *)
(***************************************************************************)
PyNone == [type |-> "NoneType"]
PyList(items) == [type |-> "list", items |-> items]
IsoStr(y, mo, d) == [type |-> "str", iso |-> [year |-> y, month |-> mo, day |-> d]]

\* bool(v)
Truthy(v) ==
    CASE v.type = "NoneType" -> FALSE
      [] v.type = "str" -> IF "s" \in DOMAIN v THEN v.s # <<>> ELSE TRUE
      [] v.type = "list" -> v.items # <<>>
      [] v.type = "int" -> v.n # 0
      [] OTHER -> TRUE

\* operator strings
OpEq == <<"=">>
OpIn == <<"i", "n">>
OpBetween == <<"b", "e", "t", "w", "e", "e", "n">>
OpLike == <<"l", "i", "k", "e">>
OpLikeUpper == <<"L", "I", "K", "E">>
OpNotLike == <<"n", "o", "t", " ", "l", "i", "k", "e">>
OpLikeAny == <<"l", "i", "k", "e", "_", "a", "n", "y">>
OpContains == <<"c", "o", "n", "t", "a", "i", "n", "s">>
OpILike == <<"i", "l", "i", "k", "e">>

\* PlanResolver._PATTERN_OPERATORS
PATTERN_OPERATORS == {OpLike, OpNotLike, OpLikeAny, OpContains}

\* the semantic model the resolver was constructed with
SemanticMetrics == {"incidents"}
SemanticDimensions == {"month", "area", "weapon"}

\* SELECT DISTINCT <dimension> FROM la_crime_raw, in the order of the rows
DatasetValues(dim) ==
    CASE dim = "area" ->
            << <<"A", "b">>, <<"B">>, <<"C">>, <<"A", "c">>, <<"B", "c">>, <<"C", "a">> >>
      [] dim = "weapon" -> << <<"C">> >>
      [] OTHER -> <<>>

\* closest_matches(dimension, value, limit=5)
SuggestionLimit == 5

\* min(int(limit_value), 2000)
ResolverMaxLimit == 2000

\* a pattern-operator set without like_any
ShouldBypass_NoLikeAny(op) == Lower(op) \in {OpLike, OpNotLike, OpContains}

\* _should_bypass_value_resolution(op)
ShouldBypassValueResolution(op) ==
    IF op = <<>> THEN FALSE ELSE Lower(op) \in PATTERN_OPERATORS

\* find_closest_value(dimension, value): case-insensitive equality first,
\* then case-insensitive prefix; None when nothing matches
FindClosestValue(dim, value) ==
    IF ~Truthy(value) THEN PyNone
    ELSE LET vals == DatasetValues(dim)
             norm == Lower(value.s)
             exact == {i \in 1..Len(vals) : Lower(vals[i]) = norm}
             prefix == {i \in 1..Len(vals) : StartsWith(Lower(vals[i]), norm)}
         IN  IF exact # {} THEN PyStr(vals[Min(exact)])
             ELSE IF prefix # {} THEN PyStr(vals[Min(prefix)])
             ELSE PyNone

RECURSIVE Levenshtein(_, _)
Levenshtein(a, b) ==
    IF a = <<>> THEN Len(b)
    ELSE IF b = <<>> THEN Len(a)
    ELSE Min({ Levenshtein(Tail(a), b) + 1,
               Levenshtein(a, Tail(b)) + 1,
               Levenshtein(Tail(a), Tail(b)) + (IF Head(a) = Head(b) THEN 0 ELSE 1) })

\* scored.append((score, item)) for every item of vals
RECURSIVE ScoreAll(_, _)
ScoreAll(target, vals) ==
    IF vals = <<>> THEN <<>>
    ELSE <<[score |-> Levenshtein(target, Lower(Head(vals))), item |-> Head(vals)]>>
         \o ScoreAll(target, Tail(vals))

\* x put into a list sorted by score, behind the entries of equal score
RECURSIVE InsertByScore(_, _)
InsertByScore(sorted, x) ==
    IF sorted = <<>> THEN <<x>>
    ELSE IF x.score < Head(sorted).score THEN <<x>> \o sorted
    ELSE <<Head(sorted)>> \o InsertByScore(Tail(sorted), x)

\* scored.sort(key=score): list.sort is stable
RECURSIVE SortByScore(_, _)
SortByScore(scored, sorted) ==
    IF scored = <<>> THEN sorted
    ELSE SortByScore(Tail(scored), InsertByScore(sorted, Head(scored)))

\* closest_matches(dimension, value): the values sorted by edit distance,
\* cut to the first `limit`
ClosestMatches(dim, value) ==
    LET scored == SortByScore(ScoreAll(Lower(value.s), DatasetValues(dim)), <<>>)
        n == Len(scored)
    IN  [k \in 1..(IF n < SuggestionLimit THEN n ELSE SuggestionLimit) |-> scored[k].item]

\* one executor lookup, as recorded in rs_calls
Lookup(fn, i, dim, item) == [fn |-> fn, filter |-> i, dim |-> dim, item |-> item]

\* the loop "for item in values" of _resolve_filter_values for filter i
RECURSIVE ResolveItems(_, _, _, _, _)

\* the loop body, given what find_closest_value returned for the item
ResolveItem(i, dim, items, done, calls, resolved) ==
    IF ~Truthy(resolved)
    THEN [status |-> "PlanResolutionError",
          suggestions |-> ClosestMatches(dim, Head(items)),
          calls |-> calls \o <<Lookup("find_closest_value", i, dim, Head(items)),
                               Lookup("closest_matches", i, dim, Head(items))>>]
    ELSE ResolveItems(i, dim, Tail(items), Append(done, resolved),
                      Append(calls, Lookup("find_closest_value", i, dim, Head(items))))

ResolveItems(i, dim, items, done, calls) ==
    IF items = <<>>
    THEN [status |-> "ok", values |-> done, calls |-> calls]
    ELSE ResolveItem(i, dim, items, done, calls, FindClosestValue(dim, Head(items)))

\* "return resolved_values if isinstance(value, list) else resolved_values[0]"
ResolvedValues(value, r) ==
    IF r.status # "ok" THEN r
    ELSE [status |-> "ok", calls |-> r.calls,
          value |-> IF value.type = "list" THEN PyList(r.values) ELSE r.values[1]]

\* _resolve_filter_values(field, op, value) for filter i
ResolveFilterValues(i, field, op, value) ==
    IF field = "month" \/ field \notin SemanticDimensions
    THEN [status |-> "ok", value |-> value, calls |-> <<>>]
    ELSE ResolvedValues(value,
             ResolveItems(i, field,
                          IF value.type = "list" THEN value.items ELSE <<value>>,
                          <<>>, <<>>))

PyDict(d) == [type |-> "dict", d |-> d]

\* executor.parse_date(value): datetime.fromisoformat(value).date()
ParseDate(v) ==
    IF v.type = "str" /\ "iso" \in DOMAIN v
    THEN [status |-> "ok", date |-> v.iso]
    ELSE [status |-> "ValueError"]

\* date.isoformat()
IsoFormat(d) == IsoStr(d.year, d.month, d.day)

\* a month shift that keeps the year of the anchor
ShiftMonth_SameYear(anchor, delta) ==
    [year |-> anchor.year, month |-> ((anchor.month - 1 + delta) % 12) + 1, day |-> 1]

\* _shift_month(anchor, delta); // and % are floor division and modulus
ShiftMonth(anchor, delta) ==
    [year |-> anchor.year + ((anchor.month - 1 + delta) \div 12),
     month |-> ((anchor.month - 1 + delta) % 12) + 1,
     day |-> 1]

\* value[0] of a month filter value, the value itself when it is no list
MonthStart(value) ==
    IF value.type # "list" THEN value
    ELSE IF value.items # <<>> THEN value.items[1]
    ELSE PyNone

\* value[1] of a month filter value, None when there is none
MonthEnd(value) ==
    IF value.type = "list" /\ Len(value.items) > 1 THEN value.items[2] ELSE PyNone

\* a "between" range whose end is missing or equal to its start becomes "="
CollapseMonth(f) ==
    IF /\ f.op = OpBetween
       /\ f.value.type = "list"
       /\ Truthy(MonthStart(f.value))
       /\ (MonthEnd(f.value) = PyNone \/ MonthEnd(f.value) = MonthStart(f.value))
    THEN [field |-> f.field, op |-> OpEq, value |-> MonthStart(f.value)]
    ELSE f

\* TimeRange(start=parse_date(start), end=parse_date(end or start), label="")
MonthRanged(out, sp, ep) ==
    IF sp.status # "ok" \/ ep.status # "ok"
    THEN [status |-> "ValueError"]
    ELSE [status |-> "ok", filter |-> out, ranged |-> TRUE,
          time_range |-> [start |-> sp.date, end |-> ep.date, label |-> ""]]

\* the filter appended and the time range set, for the (collapsed) filter f1
MonthAppend(f1) ==
    IF f1.value.type = "list" /\ f1.value.items = <<>>
    THEN [status |-> "IndexError"]
    ELSE IF ~Truthy(MonthStart(f1.value))
    THEN [status |-> "ok", ranged |-> FALSE,
          filter |-> [field |-> f1.field, op |-> f1.op,
                      value |-> PyList(<<MonthStart(f1.value), MonthEnd(f1.value)>>)]]
    ELSE MonthRanged(
             IF f1.value.type = "list"
             THEN [field |-> f1.field, op |-> f1.op,
                   value |-> PyList(<<MonthStart(f1.value), MonthEnd(f1.value)>>)]
             ELSE f1,
             ParseDate(MonthStart(f1.value)),
             ParseDate(IF Truthy(MonthEnd(f1.value)) THEN MonthEnd(f1.value)
                       ELSE MonthStart(f1.value)))

\* the "field == month" branch of the filter loop
MonthFilter(f) == MonthAppend(CollapseMonth(f))

\* the loop "for filter_ in plan.get('filters', [])" from filter i on
RECURSIVE ResolveFilters(_, _, _, _, _)

\* the loop goes on after the month branch returned r
AfterMonth(filters, i, out, time_range, calls, r) ==
    IF r.status # "ok"
    THEN [status |-> r.status, suggestions |-> <<>>, calls |-> calls]
    ELSE ResolveFilters(filters, i + 1, Append(out, r.filter),
                        IF r.ranged THEN r.time_range ELSE time_range, calls)

\* the loop goes on after _resolve_filter_values returned r
AfterLookup(filters, i, out, time_range, calls, r) ==
    IF r.status # "ok"
    THEN [status |-> r.status, suggestions |-> r.suggestions, calls |-> calls \o r.calls]
    ELSE ResolveFilters(filters, i + 1,
                        Append(out, [field |-> filters[i].field, op |-> filters[i].op,
                                     value |-> r.value]),
                        time_range, calls \o r.calls)

ResolveFilters(filters, i, out, time_range, calls) ==
    IF i > Len(filters)
    THEN [status |-> "ok", filters |-> out, time_range |-> time_range, calls |-> calls]
    ELSE IF filters[i].field = "month"
    THEN AfterMonth(filters, i, out, time_range, calls, MonthFilter(filters[i]))
    ELSE IF ShouldBypassValueResolution(filters[i].op)
    THEN ResolveFilters(filters, i + 1,
                        Append(out, [field |-> filters[i].field, op |-> filters[i].op,
                                     value |-> filters[i].value]),
                        time_range, calls)
    ELSE AfterLookup(filters, i, out, time_range, calls,
                     ResolveFilterValues(i, filters[i].field, filters[i].op,
                                         filters[i].value))

\* (time_range.end - timedelta(days=1)).strftime("%Y-%m")
LastMonthOf(end) ==
    IF end.day > 1 THEN <<end.year, end.month>>
    ELSE IF end.month = 1 THEN <<end.year - 1, 12>>
    ELSE <<end.year, end.month - 1>>

\* describe_time_range(time_range)
DescribeTimeRange(tr) ==
    IF tr = PyNone THEN [kind |-> "All available time"]
    ELSE IF <<tr.start.year, tr.start.month>> = LastMonthOf(tr.end)
    THEN [kind |-> "month", month |-> <<tr.start.year, tr.start.month>>]
    ELSE [kind |-> "range", start |-> <<tr.start.year, tr.start.month>>,
          end |-> LastMonthOf(tr.end)]

\* target_start from a parsed start and the raw end of a month range
TargetOfRange(sp, end_raw) ==
    IF sp.status # "ok" THEN PyNone
    ELSE IF ~Truthy(end_raw) THEN sp.date
    ELSE IF /\ ParseDate(end_raw).status = "ok"
            /\ ParseDate(end_raw).date = ShiftMonth(sp.date, 1)
    THEN sp.date
    ELSE PyNone

\* target_start for the first month filter mf
TargetOfFilter(mf) ==
    IF mf.op = OpEq /\ Truthy(mf.value)
    THEN IF ParseDate(mf.value).status = "ok" THEN ParseDate(mf.value).date ELSE PyNone
    ELSE IF mf.value.type = "list" /\ mf.value.items # <<>>
    THEN IF ~Truthy(mf.value.items[1]) THEN PyNone
         ELSE TargetOfRange(ParseDate(mf.value.items[1]), MonthEnd(mf.value))
    ELSE PyNone

\* month_filters = [f for f in filters if f.get("field") == "month"]
MonthFilters(filters) == SelectSeq(filters, LAMBDA f : f.field = "month")

\* target_start of the "compare.type == mom" branch (PyNone: not found)
TargetStart(filters) ==
    IF MonthFilters(filters) = <<>> THEN PyNone
    ELSE TargetOfFilter(MonthFilters(filters)[1])

\* a dict key that is set only when the value is given
NoKeys == [k \in {} |-> PyNone]
Key(k, present, v) == IF present THEN (k :> v) ELSE NoKeys

\* metric names that fall back to the row count
FallbackNames == {"count", "*"}

\* "for metric in raw_metrics": a name neither known nor a fallback raises
UnknownMetric(raw_metrics) ==
    \E k \in 1..Len(raw_metrics) :
        raw_metrics[k] \notin SemanticMetrics \cup FallbackNames

FallbackCountRequested(raw_metrics) ==
    \E k \in 1..Len(raw_metrics) :
        raw_metrics[k] \notin SemanticMetrics /\ raw_metrics[k] \in FallbackNames

KnownMetrics(raw_metrics) == SelectSeq(raw_metrics, LAMBDA x : x \in SemanticMetrics)

\* the row count stands in for the metrics
UseCount(raw_metrics) ==
    FallbackCountRequested(raw_metrics) /\ KnownMetrics(raw_metrics) = <<>>

\* metrics = resolved_metrics or raw_metrics
ResolvedMetrics(raw_metrics) ==
    IF UseCount(raw_metrics) THEN <<"count">>
    ELSE IF KnownMetrics(raw_metrics) # <<>> THEN KnownMetrics(raw_metrics)
    ELSE raw_metrics

\* aggregate_value = aggregate_value or "count", when the fallback is taken
AggregateValue(plan) ==
    IF FallbackCountRequested(plan.metrics) /\ ~Truthy(plan.aggregate)
    THEN [type |-> "str", name |-> "count"]
    ELSE plan.aggregate

\* limit = 0 if limit_value in (None, "", 0, "0") else min(int(limit_value), 2000)
ResolvedLimit(limit_value) ==
    IF ~Truthy(limit_value) THEN 0
    ELSE IF limit_value.n < ResolverMaxLimit THEN limit_value.n
    ELSE ResolverMaxLimit

\* compile_info = plan.get("compileInfo") or (extras or {}).get("compileInfo")
CompileInfo(plan) ==
    IF Truthy(plan.compileInfo) THEN plan.compileInfo
    ELSE IF Truthy(plan.extras) THEN plan.extras.d.compileInfo
    ELSE PyNone

\* resolved_plan["internal_window"] for a target_start
InternalWindow(target) ==
    [field |-> "month", op |-> OpBetween,
     value |-> PyList(<<IsoFormat(ShiftMonth(target, -1)),
                        IsoFormat(ShiftMonth(target, 1))>>)]

\* the keys set under "if compare:"
CompareKeys(compare, target) ==
    Key("compare", Truthy(compare), compare)
    @@ Key("internal_window", target # PyNone,
           IF target # PyNone THEN InternalWindow(target) ELSE PyNone)

\* resolved_plan, once the filter loop has returned filters and time_range
ResolvedPlan(plan, filters, time_range) ==
    [metrics |-> ResolvedMetrics(plan.metrics),
     group_by |-> plan.group_by,
     filters |-> filters,
     order_by |-> IF plan.order_by = PyNone
                  THEN <<[field |-> "incidents", dir |-> "desc"]>>
                  ELSE plan.order_by,
     limit |-> ResolvedLimit(plan.limit),
     time_window_label |-> DescribeTimeRange(time_range)]
    @@ Key("aggregate", Truthy(AggregateValue(plan)), AggregateValue(plan))
    @@ Key("diagnostics", UseCount(plan.metrics), <<[type |-> "unknown_metric_fallback"]>>)
    @@ CompareKeys(plan.compare,
                   IF Truthy(plan.compare) /\ plan.compare.d.type = "mom"
                   THEN TargetStart(filters) ELSE PyNone)
    @@ Key("extras", Truthy(plan.extras), plan.extras)
    @@ Key("compileInfo", Truthy(CompileInfo(plan)), CompileInfo(plan))

\* resolve() after the filter loop returned fr
AfterFilters(plan, fr) ==
    IF fr.status # "ok"
    THEN [status |-> fr.status, suggestions |-> fr.suggestions, calls |-> fr.calls]
    ELSE [status |-> "ok", calls |-> fr.calls,
          plan |-> ResolvedPlan(plan, fr.filters, fr.time_range)]

\* PlanResolver.resolve(plan)
Resolve(plan) ==
    IF UnknownMetric(plan.metrics)
    THEN [status |-> "PlanResolutionError", suggestions |-> <<>>, calls |-> <<>>]
    ELSE IF \E k \in 1..Len(plan.group_by) : plan.group_by[k] \notin SemanticDimensions
    THEN [status |-> "PlanResolutionError", suggestions |-> <<>>, calls |-> <<>>]
    ELSE AfterFilters(plan, ResolveFilters(plan.filters, 1, <<>>, PyNone, <<>>))

(***************************************************************************)
(* Specification of one PlanResolver.resolve call: Init draws the plan and *)
(* the mappings a Canonicalizer in the same process has loaded.            *)
(***************************************************************************)

\* most filters in a plan
MaxFilters == 2

FilterChoices ==
    { [field |-> "area", op |-> OpEq, value |-> PyStr(<<"a">>)],
      [field |-> "area", op |-> OpEq, value |-> PyStr(<<"z">>)],
      [field |-> "area", op |-> OpIn, value |-> PyList(<<PyStr(<<"b">>), PyStr(<<"C">>)>>)],
      [field |-> "area", op |-> OpLike, value |-> PyStr(<<"%", "a", "%">>)],
      [field |-> "area", op |-> OpLikeUpper, value |-> PyStr(<<"a", "%">>)],
      [field |-> "area", op |-> OpLikeAny,
       value |-> PyList(<<PyStr(<<"%", "a", "%">>), PyStr(<<"z", "%">>)>>)],
      [field |-> "weapon", op |-> OpNotLike, value |-> PyStr(<<"%", "a">>)],
      [field |-> "area", op |-> OpContains, value |-> PyStr(<<"a">>)],
      [field |-> "area", op |-> OpILike, value |-> PyStr(<<"%", "a", "%">>)],
      [field |-> "title", op |-> OpEq, value |-> PyStr(<<"a">>)],
      [field |-> "month", op |-> OpEq, value |-> IsoStr(2024, 1, 1)],
      [field |-> "month", op |-> OpBetween,
       value |-> PyList(<<IsoStr(2023, 12, 1), IsoStr(2024, 1, 1)>>)],
      [field |-> "month", op |-> OpBetween,
       value |-> PyList(<<IsoStr(2024, 1, 1), IsoStr(2024, 1, 1)>>)],
      [field |-> "month", op |-> OpBetween,
       value |-> PyList(<<IsoStr(2023, 12, 1), IsoStr(2024, 3, 1)>>)] }

FilterLists == UNION {[1..k -> FilterChoices] : k \in 0..MaxFilters}

Plans ==
    [metrics : {<<"incidents">>, <<"count">>, <<"bogus">>},
     aggregate : {PyNone},
     group_by : {<<>>, <<"area">>},
     filters : FilterLists,
     order_by : {PyNone},
     limit : {PyNone, PyInt(5000)},
     compare : {PyNone, PyDict([type |-> "mom"])},
     extras : {PyNone},
     compileInfo : {PyNone}]

\* resolver.resolve(plan), run to completion
ResolvePlan ==
    /\ rs_out.status = "not run"
    /\ rs_out' = Resolve(rs_plan)
    /\ rs_calls' = rs_out'.calls
    /\ UNCHANGED <<rs_plan, guardVars, nqlVars, storeVars, promoterVars,
                   watcherVars, canonVars, lockVars>>

InitPlan ==
    /\ StoreIdle
    /\ c_mappings \in MappingChoices
    /\ c_version = IF c_mappings = {} THEN 0 ELSE InitialVersion
    /\ LockIdle
    /\ rs_plan \in Plans
    /\ rs_out = NotRun
    /\ rs_calls = <<>>
    /\ GuardIdle
    /\ NqlIdle

NextPlan == ResolvePlan

SpecPlan == InitPlan /\ [][NextPlan]_vars

\* executor lookups made for filter i
CallsFor(i) == {k \in 1..Len(rs_calls) : rs_calls[k].filter = i}

\* filter i of the plan is a non-month filter with a pattern operator
IsPatternFilter(i) ==
    /\ rs_plan.filters[i].field # "month"
    /\ Lower(rs_plan.filters[i].op) \in PATTERN_OPERATORS

\* C6: resolve makes no executor lookup (find_closest_value, closest_matches)
\* for a non-month filter whose op is a pattern operator, and the resolved
\* filter keeps op and value, every pattern of a list value included.
C6_PatternFiltersUntouched ==
    rs_out.status # "not run" =>
        \A i \in 1..Len(rs_plan.filters) :
            IsPatternFilter(i) =>
                /\ CallsFor(i) = {}
                /\ rs_out.status = "ok" =>
                      /\ rs_out.plan.filters[i].op = rs_plan.filters[i].op
                      /\ rs_out.plan.filters[i].value = rs_plan.filters[i].value

\* a plan with a like_any filter over a list of patterns and a filter that
\* was looked up in the dataset has been resolved
C6_Witness ==
    /\ rs_out.status = "ok"
    /\ rs_calls # <<>>
    /\ \E i \in 1..Len(rs_plan.filters) :
          /\ IsPatternFilter(i)
          /\ rs_plan.filters[i].value.type = "list"
          /\ rs_out.plan.filters[i].value = rs_plan.filters[i].value

\* filter i is a non-month filter without pattern operator whose string
\* value is a synonym in the mappings the Canonicalizer has loaded
CanonicalApplies(i) ==
    /\ rs_plan.filters[i].field # "month"
    /\ Lower(rs_plan.filters[i].op) \notin PATTERN_OPERATORS
    /\ rs_plan.filters[i].value.type = "str"
    /\ CanonResolve(DimMapCopy(c_mappings, rs_plan.filters[i].field),
                    rs_plan.filters[i].field, rs_plan.filters[i].value).applied

\* C8: for a non-month filter without pattern operator resolve asks the
\* canonicalizer first: when the canonical value applies, no executor lookup
\* is made for that filter and the resolved plan reports it under
\* "canonicalization"; a PlanResolutionError carries at most 5 suggestions.
C8_CanonicalizerFirst ==
    rs_out.status # "not run" =>
        /\ \A i \in 1..Len(rs_plan.filters) :
              CanonicalApplies(i) =>
                  /\ CallsFor(i) = {}
                  /\ rs_out.status = "ok" => "canonicalization" \in DOMAIN rs_out.plan
        /\ rs_out.status = "PlanResolutionError" =>
              Len(rs_out.suggestions) <= SuggestionLimit

(***************************************************************************)
(* guardrails.enforce(sql, plan) (app/guardrails.py). The SQL text is a    *)
(* sequence of characters and the three regular expressions are matched    *)
(* on it character by character. Init draws a statement from a family of   *)
(* statement shapes and renders its text.                                  *)
(***************************************************************************)
IsWs(c) == c \in {" ", "\n", "\t"}

\* every character of text[a..b] is whitespace
AllWs(text, a, b) == \A k \in a..b : IsWs(text[k])

\* the lower-case word matches at position p, letter case ignored
MatchAt(text, p, word) ==
    /\ p + Len(word) - 1 <= Len(text)
    /\ Lower(SubSeq(text, p, p + Len(word) - 1)) = word

WordSelect == <<"s", "e", "l", "e", "c", "t">>
WordWith == <<"w", "i", "t", "h">>

\* _SELECT_ONLY.match(sql): ^\s*(?:with\s+.*?\)?\s*)?select, IGNORECASE | DOTALL
SelectOnlyMatch(text) ==
    \E p \in 1..Len(text) :
        /\ AllWs(text, 1, p - 1)
        /\ \/ MatchAt(text, p, WordSelect)
           \/ /\ MatchAt(text, p, WordWith)
              /\ p + 4 <= Len(text)
              /\ IsWs(text[p + 4])
              /\ \E q \in (p + 5)..Len(text) : MatchAt(text, q, WordSelect)

\* _SEMICOLON.search(sql): ;\s*
SemicolonSearch(text) == HasChar(text, ";")

\* _SELECT_STAR.search(sql): select\s+\*, IGNORECASE
SelectStarSearch(text) ==
    \E p \in 1..Len(text) :
        /\ MatchAt(text, p, WordSelect)
        /\ \E q \in (p + 7)..Len(text) : text[q] = "*" /\ AllWs(text, p + 6, q - 1)

\* "if limit and limit > 2000"
GuardMaxLimit == 2000

\* enforce(sql, plan): the GuardrailError raised, or "returned"
Enforce(text, limit) ==
    IF ~SelectOnlyMatch(text) THEN "Only SELECT statements are permitted."
    ELSE IF SemicolonSearch(text) THEN "Multiple statements are not allowed."
    ELSE IF SelectStarSearch(text) THEN "SELECT * is not permitted; select explicit columns instead."
    ELSE IF limit # 0 /\ limit > GuardMaxLimit THEN "LIMIT must be <= 2000."
    ELSE "returned"

\* select lists: a column, a star, a star behind a column (the list of the
\* builder's base CTE: DATE_TRUNC(...) AS month, * )
SelectLists == {<<"a">>, <<"*">>, <<"a", "*">>}

\* the main statement's verb, as written
Verbs == {"SELECT", "select", "INSERT", "DELETE"}

\* statement shapes: optional leading blank, optional CTE (cte = <<>>: none),
\* verb, select list, and what follows the statement
Statements ==
    [lead : BOOLEAN,
     cte : {<<>>} \cup SelectLists,
     verb : Verbs,
     items : SelectLists,
     tail : {"", ";", "; DELETE"}]

RECURSIVE RenderItems(_)
RenderItems(items) ==
    IF Len(items) = 1 THEN <<items[1]>>
    ELSE <<items[1], ",", " ">> \o RenderItems(Tail(items))

RenderCte(cte) ==
    IF cte = <<>> THEN <<>>
    ELSE <<"W", "I", "T", "H", " ", "b", " ", "A", "S", " ", "(", "S", "E", "L", "E", "C", "T", " ">> \o RenderItems(cte)
         \o <<" ", "F", "R", "O", "M", " ", "t", ")", " ">>

RenderMain(verb, items) ==
    CASE verb = "SELECT" -> <<"S", "E", "L", "E", "C", "T", " ">> \o RenderItems(items) \o <<" ", "F", "R", "O", "M", " ", "b">>
      [] verb = "select" -> <<"s", "e", "l", "e", "c", "t", " ">> \o RenderItems(items) \o <<" ", "f", "r", "o", "m", " ", "b">>
      [] verb = "INSERT" -> <<"I", "N", "S", "E", "R", "T", " ", "I", "N", "T", "O", " ", "t", " ", "S", "E", "L", "E", "C", "T", " ">> \o RenderItems(items)
                            \o <<" ", "F", "R", "O", "M", " ", "b">>
      [] OTHER -> <<"D", "E", "L", "E", "T", "E", " ", "F", "R", "O", "M", " ", "t">>

RenderTail(tail) ==
    CASE tail = "" -> <<>>
      [] tail = ";" -> <<";">>
      [] OTHER -> <<";", " ", "D", "E", "L", "E", "T", "E", " ", "F", "R", "O", "M", " ", "t">>

\* the SQL text of a statement
Render(stmt) ==
    (IF stmt.lead THEN <<" ">> ELSE <<>>)
    \o RenderCte(stmt.cte) \o RenderMain(stmt.verb, stmt.items) \o RenderTail(stmt.tail)

\* plan["limit"] values
GuardLimits == {0, 100, GuardMaxLimit, GuardMaxLimit + 1}

\* guardrails.enforce(sql, resolved_plan), run to completion
EnforceCall ==
    /\ g_out = None
    /\ g_out' = Enforce(Render(g_stmt), g_limit)
    /\ UNCHANGED <<g_stmt, g_limit, vp_nql, vp_sql, vp_stats, vp_cfg, vp_out,
                   tk_plan, tk_base, tk_query, tk_out,
                   resolverVars, nqlVars, storeVars, promoterVars,
                   watcherVars, canonVars, lockVars>>

InitGuard ==
    /\ StoreIdle
    /\ CanonInit
    /\ LockIdle
    /\ ResolverIdle
    /\ NqlIdle
    /\ g_stmt \in Statements
    /\ g_limit \in GuardLimits
    /\ g_out = None
    /\ PlanGuardIdle
    /\ TopKIdle

NextGuard == EnforceCall

SpecGuard == InitGuard /\ [][NextGuard]_vars

\* the statement is one SELECT, with or without a CTE in front
IsSingleSelect(stmt) == stmt.verb \in {"SELECT", "select"} /\ stmt.tail # "; DELETE"

\* a star is in the select list of the statement or of its CTE
SelectsStar(stmt) ==
    \/ \E k \in 1..Len(stmt.items) : stmt.verb # "DELETE" /\ stmt.items[k] = "*"
    \/ \E k \in 1..Len(stmt.cte) : stmt.cte[k] = "*"

\* C9: enforce raises GuardrailError exactly when the statement is not a
\* single SELECT / WITH...SELECT, or holds a semicolon, or selects * anywhere
\* (inside a CTE, behind other select-list items), or plan limit > 2000.
C9_FailsClosed ==
    g_out # None =>
        (g_out # "returned" <=>
            \/ ~IsSingleSelect(g_stmt)
            \/ g_stmt.tail # ""
            \/ SelectsStar(g_stmt)
            \/ g_limit > GuardMaxLimit)

(***************************************************************************)
(* validate_nql (app/nql/validator.py) on an NQLQuery (app/nql/model.py).  *)
(* The critic passes run in order on the working copy; st is the working   *)
(* copy with the critic_pass list collected so far, and a raised           *)
(* NQLValidationError ends the run.                                        *)
(***************************************************************************)
SERVER_MAX_LIMIT == 2000

Raise(st, message) == [st EXCEPT !.status = "NQLValidationError", !.message = message]

Passed(st, name) == [st EXCEPT !.critic_pass = Append(@, name)]

\* _parse_date(raw, context) succeeds
ParsesAsDate(raw) == Truthy(raw) /\ ParseDate(raw).status = "ok"

\* _next_quarter_start(dt)
NextQuarterStart(dt) ==
    [year |-> dt.year + (IF (dt.month - 1) \div 3 = 3 THEN 1 ELSE 0),
     month |-> ((((dt.month - 1) \div 3) + 1) % 4) * 3 + 1,
     day |-> 1]

\* _ensure_quarter_bounds(nql, critic_pass)
EnsureQuarterBounds(st) ==
    IF st.status # "ok" THEN st
    ELSE IF st.nql.time.window.type # "quarter" \/ ~st.nql.flags.quarter_exclusive_end
    THEN st
    ELSE IF ~ParsesAsDate(st.nql.time.window.start)
    THEN Raise(st, "quarter.start must be provided")
    ELSE IF ~ParsesAsDate(st.nql.time.window.end)
    THEN Raise(st, "quarter.end must be provided")
    ELSE IF ParseDate(st.nql.time.window.end).date
              # NextQuarterStart(ParseDate(st.nql.time.window.start).date)
    THEN Raise(st, "quarter window end must be first day of next quarter")
    ELSE Passed([st EXCEPT !.nql.time.window.exclusive_end = TRUE],
                "quarter_exclusive_end")

\* set(nql.group_by) | set(nql.dimensions)
Present(nql) ==
    {nql.group_by[k] : k \in 1..Len(nql.group_by)}
    \cup {nql.dimensions[k] : k \in 1..Len(nql.dimensions)}

\* _ensure_trend_grouping(nql, critic_pass)
EnsureTrendGrouping(st) ==
    IF st.status # "ok" THEN st
    ELSE IF st.nql.intent # "trend" \/ ~st.nql.flags.require_grouping_for_trend
    THEN st
    ELSE Passed([st EXCEPT
                    !.nql.group_by =
                        IF "month" \in Present(st.nql) THEN @ ELSE <<"month">> \o @,
                    !.nql.time.window.n =
                        IF st.nql.time.window.type = "relative_months" /\ @ = PyNone
                        THEN PyInt(12) ELSE @],
                "trend_grouping")

\* _ensure_mom_expand_prior(nql, critic_pass)
EnsureMomExpandPrior(st) ==
    IF st.status # "ok" THEN st
    ELSE IF \/ st.nql.compare = PyNone
            \/ st.nql.compare.ctype # "mom"
            \/ st.nql.time.window.type # "single_month"
    THEN st
    ELSE Passed([st EXCEPT !.nql.compare.internal_window = [expand_prior |-> TRUE]],
                "mom_single_month_expand_prior")

\* pattern_ops of _validate_like_filters
NqlPatternOps == {"like", "ilike", "like_any"}

\* _validate_like_filters(nql, critic_pass)
ValidateLikeFilters(st) ==
    IF st.status # "ok" THEN st
    ELSE IF \E k \in 1..Len(st.nql.filters) :
               /\ st.nql.filters[k].op \in NqlPatternOps
               /\ st.nql.filters[k].type # "text_raw"
    THEN Raise(st, "LIKE filters must use type=text_raw for passthrough")
    ELSE Passed(st, "like_passthrough")

\* names a sort may target
SortTargets(nql) ==
    {nql.metrics[k].alias : k \in 1..Len(nql.metrics)} \cup Present(nql) \cup {"month"}

\* _validate_sort(nql, critic_pass)
ValidateSort(st) ==
    IF st.status # "ok" THEN st
    ELSE IF st.nql.sort = <<>> THEN st
    ELSE IF \E k \in 1..Len(st.nql.sort) : st.nql.sort[k].by \notin SortTargets(st.nql)
    THEN Raise(st, "Sort target must be a metric alias or dimension")
    ELSE Passed(st, "sort_safety")

\* a clamp that has no floor
Clamp_NoFloor(x, cap) == IF x < cap THEN x ELSE cap

\* min(max(1, x), cap)
Clamp(x, cap) == IF x < 1 THEN (IF 1 < cap THEN 1 ELSE cap) ELSE IF x < cap THEN x ELSE cap

\* _clamp_limit(nql, critic_pass)
ClampLimit(st) ==
    IF st.status # "ok" THEN st
    ELSE Passed([st EXCEPT
                    !.nql.flags.rowcap_hint = Clamp(@, SERVER_MAX_LIMIT),
                    !.nql.limit = Clamp(Clamp(@, Clamp(st.nql.flags.rowcap_hint,
                                                       SERVER_MAX_LIMIT)),
                                        SERVER_MAX_LIMIT)],
                "limit_clamp")

\* list(dict.fromkeys(names)): the first occurrence of each name, in order
RECURSIVE FromKeys(_, _)
FromKeys(names, kept) ==
    IF names = <<>> THEN kept
    ELSE IF \E k \in 1..Len(kept) : kept[k] = Head(names)
    THEN FromKeys(Tail(names), kept)
    ELSE FromKeys(Tail(names), Append(kept, Head(names)))

\* a merge that keeps every entry
MergePasses_KeepAll(seen, critic_pass) == seen \o critic_pass

\* merged = list(dict.fromkeys([*seen, *critic_pass]))
MergePasses(seen, critic_pass) == FromKeys(seen \o critic_pass, <<>>)

\* the end of validate_nql, after the passes
MergeProvenance(st) ==
    IF st.status # "ok"
    THEN [status |-> st.status, message |-> st.message]
    ELSE [status |-> "ok",
          nql |-> [st.nql EXCEPT
                      !.provenance.critic_pass = MergePasses(@, st.critic_pass)]]

\* the sub-objects of an NQLQuery that the passes write to
Containers == {"group_by", "window", "compare", "flags", "provenance"}

\* a copy that builds a new top-level object around the same sub-objects
ShallowCopy(nql) == [obj |-> nql, shared |-> Containers]

\* nql.copy(deep=True): a new object that shares no sub-object with nql
DeepCopy(nql) == [obj |-> nql, shared |-> {}]

\* the six passes of validate_nql, in order, on the working copy
RunPasses(working) ==
    ClampLimit(
    ValidateSort(
    ValidateLikeFilters(
    EnsureMomExpandPrior(
    EnsureTrendGrouping(
    EnsureQuarterBounds(
        [status |-> "ok", message |-> "", nql |-> working, critic_pass |-> <<>>]))))))

\* validate_nql(nql)
ValidateNql(nql) ==
    IF nql.metrics = <<>>
    THEN [status |-> "NQLValidationError",
          message |-> "metrics must contain at least one entry"]
    ELSE MergeProvenance(RunPasses(DeepCopy(nql).obj))

\* the working copy as validate_nql leaves it, on return or on raise
WorkingAfter(nql) ==
    IF nql.metrics = <<>> THEN nql
    ELSE IF RunPasses(DeepCopy(nql).obj).status = "ok"
    THEN ValidateNql(nql).nql
    ELSE RunPasses(DeepCopy(nql).obj).nql

\* what the caller's object holds once the working copy w has been written
\* to: a sub-object the copy shares with the caller shows the writes
SeenByCaller(nql, w, shared) ==
    [nql EXCEPT
        !.group_by = IF "group_by" \in shared THEN w.group_by ELSE @,
        !.time.window = IF "window" \in shared THEN w.time.window ELSE @,
        !.compare = IF "compare" \in shared THEN w.compare ELSE @,
        !.flags = IF "flags" \in shared THEN w.flags ELSE @,
        !.provenance = IF "provenance" \in shared THEN w.provenance ELSE @]

\* the object passed to validate_nql, after the call
CallerAfter(nql) == SeenByCaller(nql, WorkingAfter(nql), DeepCopy(nql).shared)

(***************************************************************************)
(* compile_nql_query, as far as the fields of the modelled NQLQuery go: the *)
(* time filter, group_by, order_by, limit, compare and the audit trail.     *)
(***************************************************************************)

\* the date compile_payload is given as today
Today == [year |-> 2024, month |-> 1, day |-> 15]

\* _current_month_start(today)
CurrentMonthStart(today) == [year |-> today.year, month |-> today.month, day |-> 1]

\* {"field": "month", "op": "between", "value": [start.isoformat(), end.isoformat()]}
BetweenMonths(start, end) ==
    [field |-> "month", op |-> "between", value |-> <<IsoFormat(start), IsoFormat(end)>>]

\* the single_month branch of _compile_time_filter; it fills in window.end
\* and window.exclusive_end of the query it is given
CompileSingleMonth(window) ==
    IF ~ParsesAsDate(window.start) THEN [status |-> "ValueError"]
    ELSE [status |-> "ok",
          filter |-> BetweenMonths(ParseDate(window.start).date,
                                   ShiftMonth(ParseDate(window.start).date, 1)),
          window |-> [window EXCEPT
                         !.end = IF Truthy(@) THEN @
                                 ELSE IsoFormat(ShiftMonth(ParseDate(window.start).date, 1)),
                         !.exclusive_end = TRUE]]

\* the quarter branch, and the absolute branch with an end
CompileBounded(window) ==
    IF ~ParsesAsDate(window.start) \/ ~ParsesAsDate(window.end)
    THEN [status |-> "ValueError"]
    ELSE [status |-> "ok",
          filter |-> BetweenMonths(ParseDate(window.start).date,
                                   ParseDate(window.end).date),
          window |-> window]

\* the absolute branch
CompileAbsolute(window) ==
    IF ~ParsesAsDate(window.start) THEN [status |-> "ValueError"]
    ELSE IF Truthy(window.end) THEN CompileBounded(window)
    ELSE [status |-> "ok",
          filter |-> [field |-> "month", op |-> ">=",
                      value |-> IsoFormat(ParseDate(window.start).date)],
          window |-> window]

\* end of a relative_months window
RelativeEnd(window, today) ==
    IF Truthy(window.end) THEN ParseDate(window.end).date ELSE CurrentMonthStart(today)

\* the relative_months branch: months = window.n or 12
CompileRelativeMonths(window, today) ==
    IF Truthy(window.end) /\ ~ParsesAsDate(window.end) THEN [status |-> "ValueError"]
    ELSE [status |-> "ok",
          filter |-> BetweenMonths(
                         ShiftMonth(RelativeEnd(window, today),
                                    0 - (IF Truthy(window.n) THEN window.n.n ELSE 12)),
                         RelativeEnd(window, today)),
          window |-> window]

\* end of a ytd window
YtdEnd(window, today) ==
    IF Truthy(window.end) THEN ParseDate(window.end).date
    ELSE ShiftMonth(CurrentMonthStart(today), 1)

\* start of a ytd window: date(end.year if end.month > 1 else end.year - 1, 1, 1)
YtdStart(window, today) ==
    IF Truthy(window.start) THEN ParseDate(window.start).date
    ELSE [year |-> IF YtdEnd(window, today).month > 1 THEN YtdEnd(window, today).year
                   ELSE YtdEnd(window, today).year - 1,
          month |-> 1, day |-> 1]

\* the ytd branch
CompileYtd(window, today) ==
    IF \/ (Truthy(window.end) /\ ~ParsesAsDate(window.end))
       \/ (Truthy(window.start) /\ ~ParsesAsDate(window.start))
    THEN [status |-> "ValueError"]
    ELSE [status |-> "ok",
          filter |-> BetweenMonths(YtdStart(window, today), YtdEnd(window, today)),
          window |-> window]

\* _compile_time_filter(nql, today)
CompileTimeFilter(window, today) ==
    CASE window.type = "single_month" -> CompileSingleMonth(window)
      [] window.type = "quarter" -> CompileBounded(window)
      [] window.type = "absolute" -> CompileAbsolute(window)
      [] window.type = "relative_months" -> CompileRelativeMonths(window, today)
      [] window.type = "ytd" -> CompileYtd(window, today)
      [] OTHER -> [status |-> "ValueError"]

\* the loop of _compile_filters(nql, today): filters on month are skipped
RECURSIVE CompileFilterLoop(_, _)
CompileFilterLoop(filters, compiled) ==
    IF filters = <<>> THEN compiled
    ELSE IF Head(filters).field = "month" THEN CompileFilterLoop(Tail(filters), compiled)
    ELSE CompileFilterLoop(Tail(filters),
                           Append(compiled, [field |-> Head(filters).field,
                                             op |-> Head(filters).op,
                                             value |-> Head(filters).value]))

\* _compile_filters(nql, today), given the compiled time filter
CompileFilters(nql, time_filter) ==
    Append(CompileFilterLoop(nql.filters, <<>>), time_filter)

RECURSIVE Dedupe(_, _)
\* _compile_group_by(nql): [*group_by, *dimensions] without repeats
Dedupe(dims, ordered) ==
    IF dims = <<>> THEN ordered
    ELSE IF \E k \in 1..Len(ordered) : ordered[k] = Head(dims)
    THEN Dedupe(Tail(dims), ordered)
    ELSE Dedupe(Tail(dims), Append(ordered, Head(dims)))

\* _compile_sort(nql)
CompileSort(nql) ==
    IF nql.sort = <<>> /\ nql.intent = "trend" THEN <<[field |-> "month"]>>
    ELSE [k \in 1..Len(nql.sort) |-> [field |-> nql.sort[k].by]]

\* _compile_compare(nql): type, baseline and internal_window of the plan
CompileCompare(nql) ==
    IF nql.compare = PyNone THEN PyNone
    ELSE [ctype |-> nql.compare.ctype,
          baseline |-> nql.compare.baseline,
          internal_window |-> nql.compare.internal_window]

\* compile_nql_query(nql, today): the plan, and nql as the call leaves it
CompileNqlQuery(nql, today) ==
    IF CompileTimeFilter(nql.time.window, today).status # "ok"
    THEN [status |-> "ValueError"]
    ELSE [status |-> "ok",
          plan |-> [metrics |-> [k \in 1..Len(nql.metrics) |-> nql.metrics[k].alias],
                    group_by |-> Dedupe(nql.group_by \o nql.dimensions, <<>>),
                    filters |-> CompileFilters(nql,
                                    CompileTimeFilter(nql.time.window, today).filter),
                    order_by |-> CompileSort(nql),
                    limit |-> nql.limit,
                    compare |-> CompileCompare(nql),
                    rowcap_hint |-> nql.flags.rowcap_hint,
                    critic_pass |-> nql.provenance.critic_pass],
          nql |-> [nql EXCEPT
                     !.time.window = CompileTimeFilter(nql.time.window, today).window]]

(***************************************************************************)
(* Specification of repeated validation: Init draws the query, the first   *)
(* call validates it, every later call validates the previous result.      *)
(***************************************************************************)

\* number of validate_nql calls in a row
MaxValidations == 3

Window(type, start, end, exclusive_end, n) ==
    [type |-> type, start |-> start, end |-> end, exclusive_end |-> exclusive_end, n |-> n]

WindowChoices ==
    { Window("single_month", IsoStr(2024, 1, 1), IsoStr(2024, 2, 1), TRUE, PyNone),
      Window("quarter", IsoStr(2024, 1, 1), IsoStr(2024, 4, 1), FALSE, PyNone),
      Window("quarter", IsoStr(2024, 10, 1), IsoStr(2025, 1, 1), TRUE, PyNone),
      Window("quarter", IsoStr(2024, 2, 1), IsoStr(2024, 5, 1), FALSE, PyNone),
      Window("quarter", IsoStr(2024, 2, 1), IsoStr(2024, 4, 1), FALSE, PyNone),
      Window("relative_months", PyNone, PyNone, FALSE, PyNone),
      Window("relative_months", PyNone, PyNone, FALSE, PyInt(3)) }

\* CompareSpec(type, baseline, internal_window, start, end)
CompareSpec(ctype, baseline, internal_window, start, end) ==
    [ctype |-> ctype, baseline |-> baseline, internal_window |-> internal_window,
     start |-> start, end |-> end]

CompareChoices ==
    { PyNone,
      CompareSpec("mom", None, PyNone, PyNone, PyNone),
      CompareSpec("mom", None, [expand_prior |-> FALSE], PyNone, PyNone) }

\* pre/post comparisons against an absolute baseline, over an absolute window
AbsoluteWindow == Window("absolute", IsoStr(2023, 6, 1), IsoStr(2023, 12, 1), FALSE, PyNone)

AbsoluteCompareChoices ==
    { CompareSpec(None, "absolute", PyNone, IsoStr(2023, 1, 1), IsoStr(2023, 6, 1)),
      CompareSpec(None, "absolute", PyNone, PyNone, PyNone),
      CompareSpec(None, "absolute", PyNone, IsoStr(2023, 1, 1), PyNone),
      CompareSpec(None, "absolute", PyNone, PyNone, IsoStr(2023, 6, 1)) }

\* (dimensions, group_by)
GroupingChoices ==
    { <<<<>>, <<>>>>, <<<<"month">>, <<"area">>>>, <<<<>>, <<"area">>>> }

\* Filter(field, op, value, type)
NqlFilter(field, op, value, type) ==
    [field |-> field, op |-> op, value |-> value, type |-> type]

NqlFilterChoices ==
    { <<>>,
      <<NqlFilter("area", "like", PyStr(<<"%", "a", "%">>), "text_raw")>>,
      <<NqlFilter("area", "=", PyStr(<<"a">>), "text"),
        NqlFilter("area", "ilike", PyStr(<<"%", "a", "%">>), "text")>> }

FlagChoices ==
    [require_grouping_for_trend : BOOLEAN,
     quarter_exclusive_end : {TRUE},
     rowcap_hint : {0, 50, 10000}]
    \cup { [require_grouping_for_trend |-> TRUE, quarter_exclusive_end |-> FALSE,
            rowcap_hint |-> 10000] }

CriticPassChoices ==
    { <<>>, <<"limit_clamp", "custom">>, <<"custom", "limit_clamp", "custom">> }

NqlQuery(intent, metrics, window, grouping, filters, compare, sort, limit, flags, seen) ==
    [intent |-> intent,
     metrics |-> metrics,
     time |-> [grain |-> "month", window |-> window],
     dimensions |-> grouping[1],
     group_by |-> grouping[2],
     filters |-> filters,
     compare |-> compare,
     sort |-> sort,
     limit |-> limit,
     flags |-> flags,
     provenance |-> [critic_pass |-> seen]]

NqlQueries ==
    { NqlQuery(intent, <<[alias |-> "incidents"]>>, window, grouping, filters, compare,
               sort, limit, flags, seen) :
        intent \in {"aggregate", "trend"},
        window \in WindowChoices,
        grouping \in GroupingChoices,
        filters \in NqlFilterChoices,
        compare \in CompareChoices,
        sort \in {<<>>, <<[by |-> "incidents"], [by |-> "area"]>>},
        limit \in {0, 100, 5000},
        flags \in FlagChoices,
        seen \in CriticPassChoices }
    \cup
    { NqlQuery("aggregate", <<>>, window, <<<<>>, <<>>>>, <<>>, PyNone, <<>>, 100, flags,
               <<>>) :
        window \in WindowChoices, flags \in FlagChoices }
    \cup
    { NqlQuery("compare", <<[alias |-> "incidents"]>>, AbsoluteWindow, grouping, <<>>,
               compare, <<>>, limit, flags, <<>>) :
        grouping \in GroupingChoices,
        compare \in AbsoluteCompareChoices \cup CompareChoices,
        limit \in {0, 100, 5000},
        flags \in FlagChoices }

\* validate_nql(x)
ValidateFirst ==
    /\ nq_runs = 0
    /\ nq_out' = ValidateNql(nq_in)
    /\ nq_cur' = nq_out'
    /\ nq_runs' = 1
    /\ nq_caller' = CallerAfter(nq_in)
    /\ UNCHANGED <<nq_in, nq_compiled, resolverVars, guardVars, storeVars,
                   promoterVars, watcherVars, canonVars, lockVars>>

\* validate_nql on the query the previous call returned
Revalidate ==
    /\ nq_runs >= 1
    /\ nq_runs < MaxValidations
    /\ nq_cur.status = "ok"
    /\ nq_cur' = ValidateNql(nq_cur.nql)
    /\ nq_runs' = nq_runs + 1
    /\ nq_caller' = CallerAfter(nq_cur.nql)
    /\ UNCHANGED <<nq_in, nq_out, nq_compiled, resolverVars, guardVars, storeVars,
                   promoterVars, watcherVars, canonVars, lockVars>>

\* the second half of compile_payload: compile_nql_query(validated, today)
Compile ==
    /\ nq_runs >= 1
    /\ nq_out.status = "ok"
    /\ nq_compiled = NotRun
    /\ nq_compiled' = CompileNqlQuery(nq_out.nql, Today)
    /\ UNCHANGED <<nq_in, nq_out, nq_cur, nq_runs, nq_caller, resolverVars, guardVars,
                   storeVars, promoterVars, watcherVars, canonVars, lockVars>>

InitValidate ==
    /\ StoreIdle
    /\ CanonInit
    /\ LockIdle
    /\ ResolverIdle
    /\ GuardIdle
    /\ nq_in \in NqlQueries
    /\ nq_out = NotRun
    /\ nq_cur = NotRun
    /\ nq_runs = 0
    /\ nq_caller = NotRun
    /\ nq_compiled = NotRun

NextValidate == ValidateFirst \/ Revalidate \/ Compile

SpecValidate == InitValidate /\ [][NextValidate]_vars

NoDuplicates(names) ==
    \A j, k \in 1..Len(names) : j # k => names[j] # names[k]

\* C10: validate_nql is idempotent: validating the result of a successful
\* validation again, any number of times, returns that same result field for
\* field, and provenance.critic_pass holds no pass name twice.
C10_ValidateIdempotent ==
    (nq_runs >= 1 /\ nq_out.status = "ok") =>
        /\ nq_cur = nq_out
        /\ NoDuplicates(nq_cur.nql.provenance.critic_pass)

\* a query that validation changed (trend grouping added, limit clamped,
\* a pass name already recorded) has been validated a second time
C10_Witness ==
    /\ nq_runs >= 2
    /\ nq_out.status = "ok"
    /\ nq_out.nql.group_by # nq_in.group_by
    /\ nq_out.nql.limit # nq_in.limit
    /\ nq_in.provenance.critic_pass # <<>>
    /\ nq_cur.status = "ok"

\* the NQLQuery object handed to the call that is being made
Argument == IF nq_runs = 0 THEN nq_in ELSE nq_cur.nql

\* C11: validate_nql never mutates the NQLQuery passed by the caller, whether
\* it returns or raises: after every call the caller's object (group_by,
\* time.window, compare.internal_window, limit, flags.rowcap_hint and
\* provenance.critic_pass included) is what it was before the call.
C11_InputNotMutated ==
    [][nq_runs' # nq_runs => nq_caller' = Argument]_vars

\* a call that rewrote group_by, the window, the limit, rowcap_hint and
\* critic_pass in its result has returned, and the caller's object is intact
C11_Witness ==
    /\ nq_runs = 1
    /\ nq_out.status = "ok"
    /\ nq_out.nql.group_by # nq_in.group_by
    /\ nq_out.nql.time.window # nq_in.time.window
    /\ nq_out.nql.limit # nq_in.limit
    /\ nq_out.nql.flags.rowcap_hint # nq_in.flags.rowcap_hint
    /\ nq_out.nql.provenance.critic_pass # nq_in.provenance.critic_pass
    /\ nq_caller = nq_in

\* the first call returned a query whose audit trail holds the pass name
Recorded(name) ==
    \E k \in 1..Len(nq_out.nql.provenance.critic_pass) :
        nq_out.nql.provenance.critic_pass[k] = name

\* the first validate_nql call has returned normally
FirstReturned == nq_runs >= 1 /\ nq_out.status = "ok"

\* C12: for every quarter window, with flags.quarter_exclusive_end set,
\* validate_nql raises or returns a window whose end is the input start
\* shifted by exactly three months, with exclusive_end true and
\* 'quarter_exclusive_end' recorded, whether or not the start lies on a
\* calendar-quarter boundary.
C12_QuarterEndIsStartPlus3 ==
    (/\ FirstReturned
     /\ nq_in.time.window.type = "quarter"
     /\ nq_in.flags.quarter_exclusive_end) =>
        /\ nq_out.nql.time.window.exclusive_end
        /\ Recorded("quarter_exclusive_end")
        /\ ParseDate(nq_out.nql.time.window.end).date
               = ShiftMonth(ParseDate(nq_in.time.window.start).date, 3)

\* C13: for intent=trend and a relative_months window with n unset,
\* validate_nql returns n = 12 and group_by[0] = 'month', whatever group_by
\* and dimensions hold (flags.require_grouping_for_trend at its default, set).
C13_TrendDefaults ==
    (/\ FirstReturned
     /\ nq_in.flags.require_grouping_for_trend
     /\ nq_in.intent = "trend"
     /\ nq_in.time.window.type = "relative_months"
     /\ nq_in.time.window.n = PyNone) =>
        /\ nq_out.nql.time.window.n = PyInt(12)
        /\ nq_out.nql.group_by # <<>>
        /\ nq_out.nql.group_by[1] = "month"

\* clamp(x, 1, 2000) as the specification words it
SpecClamp(x) == IF x < 1 THEN 1 ELSE IF x > 2000 THEN 2000 ELSE x

\* min(a, b)
MinOf(a, b) == IF a < b THEN a ELSE b

\* C14: the output of validate_nql satisfies 1 <= limit <= rowcap_hint <= 2000
\* with rowcap_hint = clamp(input rowcap_hint, 1, 2000) and
\* limit = min(max(1, input limit), rowcap_hint); limit 5000 with rowcap_hint
\* 10000 compiles to limit 2000 and rowcap_hint 2000; 'limit_clamp' is recorded.
C14_LimitClamped ==
    FirstReturned =>
        /\ nq_out.nql.flags.rowcap_hint = SpecClamp(nq_in.flags.rowcap_hint)
        /\ nq_out.nql.limit = MinOf(IF nq_in.limit < 1 THEN 1 ELSE nq_in.limit,
                                    nq_out.nql.flags.rowcap_hint)
        /\ 1 <= nq_out.nql.limit
        /\ nq_out.nql.limit <= nq_out.nql.flags.rowcap_hint
        /\ nq_out.nql.flags.rowcap_hint <= 2000
        /\ Recorded("limit_clamp")
        /\ (nq_compiled # NotRun /\ nq_compiled.status = "ok"
               /\ nq_in.limit = 5000 /\ nq_in.flags.rowcap_hint = 10000) =>
              (nq_compiled.plan.limit = 2000 /\ nq_compiled.plan.rowcap_hint = 2000)

\* limit 5000 with rowcap_hint 10000 has been validated and compiled
C14_Witness ==
    /\ FirstReturned
    /\ nq_in.limit = 5000
    /\ nq_in.flags.rowcap_hint = 10000
    /\ nq_compiled # NotRun
    /\ nq_compiled.status = "ok"
    /\ nq_compiled.plan.limit = 2000

\* C15: when compare.baseline is absolute, validation requires compare.start
\* and compare.end: without both the call raises NQLValidationError, with
\* both it records 'baseline_absolute_requires_bounds' in critic_pass.
C15_AbsoluteBaselineNeedsBounds ==
    (/\ nq_runs >= 1
     /\ nq_in.metrics # <<>>
     /\ nq_in.compare # PyNone
     /\ nq_in.compare.baseline = "absolute") =>
        IF Truthy(nq_in.compare.start) /\ Truthy(nq_in.compare.end)
        THEN nq_out.status = "ok" => Recorded("baseline_absolute_requires_bounds")
        ELSE nq_out.status = "NQLValidationError"

(***************************************************************************)
(* guardrails.validate_plan(nql, sql, preview_stats, config)               *)
(* (app/guardrails.py). nql is a dict: a key that is absent and a key      *)
(* holding None read the same through .get, so both are PyNone here. Dates *)
(* carry their day, and date differences are taken on proleptic Gregorian  *)
(* ordinals as datetime.date does.                                        *)
(***************************************************************************)

\* calendar.isleap
IsLeap(y) == (y % 4 = 0 /\ y % 100 # 0) \/ y % 400 = 0

DaysInMonth(y, mo) ==
    CASE mo = 2 -> IF IsLeap(y) THEN 29 ELSE 28
      [] mo \in {4, 6, 9, 11} -> 30
      [] OTHER -> 31

\* days before January 1st of year y
DaysBeforeYear(y) == (y - 1) * 365 + (y - 1) \div 4 - (y - 1) \div 100 + (y - 1) \div 400

RECURSIVE DaysBeforeMonth(_, _)
DaysBeforeMonth(y, mo) ==
    IF mo = 1 THEN 0 ELSE DaysBeforeMonth(y, mo - 1) + DaysInMonth(y, mo - 1)

\* date.toordinal()
ToOrdinal(d) == DaysBeforeYear(d.year) + DaysBeforeMonth(d.year, d.month) + d.day

YearOfOrdinal(n) ==
    CHOOSE y \in (n \div 366)..(n \div 365 + 1) :
        DaysBeforeYear(y) < n /\ n <= DaysBeforeYear(y + 1)

\* month of the r-th day of year y
MonthOfYearDay(y, r) ==
    CHOOSE mo \in 1..12 :
        DaysBeforeMonth(y, mo) < r /\ r <= DaysBeforeMonth(y, mo) + DaysInMonth(y, mo)

\* date.fromordinal(n)
FromOrdinal(n) ==
    [year |-> YearOfOrdinal(n),
     month |-> MonthOfYearDay(YearOfOrdinal(n), n - DaysBeforeYear(YearOfOrdinal(n))),
     day |-> n - DaysBeforeYear(YearOfOrdinal(n))
               - DaysBeforeMonth(YearOfOrdinal(n),
                     MonthOfYearDay(YearOfOrdinal(n), n - DaysBeforeYear(YearOfOrdinal(n))))]

\* d - timedelta(days=n)
MinusDays(d, n) == FromOrdinal(ToOrdinal(d) - n)

\* _dt.date.fromisoformat(str(v)) succeeds
FromIsoOk(v) == v.type = "str" /\ "iso" \in DOMAIN v

\* _default_config(config): the defaults, overridden by the keys of config
DefaultConfig(config) ==
    [MAX_ROWS |-> 10000,
     TOP_K_DEFAULT |-> 100,
     JOIN_BLOWUP_FACTOR |-> 10,
     MAX_TIME_RANGE_YEARS |-> 10,
     DEFAULT_LIMIT |-> 100,
     canonical_values |-> IF config = PyNone THEN PyNone ELSE config.canonical_values]

\* _copy_nql(nql): copy.deepcopy, {} for a missing nql
CopyNql(nql) ==
    IF nql = PyNone
    THEN [time |-> PyNone, group_by |-> PyNone, limit |-> PyNone, filters |-> PyNone]
    ELSE nql

\* limits as validate_plan starts with
InitialLimits(cfg) == [row_cap |-> cfg.MAX_ROWS, applied |-> FALSE, top_k |-> PyNone]

Diag(type, message, details) == [type |-> type, message |-> message, details |-> details]

\* the return value of every blocking exit
Blocked(e, diagnostics, cfg) ==
    [decision |-> "block",
     effective_nql |-> e,
     effective_sql |-> PyNone,
     diagnostics |-> diagnostics,
     limits |-> InitialLimits(cfg),
     postflight_numeric_ok |-> TRUE]

\* time_spec.get("start") / .get("end") of (effective_nql or {}).get("time") or {}
TimeGet(e, key) ==
    IF e.time = PyNone THEN PyNone
    ELSE IF key \in DOMAIN e.time THEN e.time[key]
    ELSE PyNone

\* a letter, digit or underscore (\w)
IsWordChar(c) ==
    \/ \E i \in 1..Len(UpperLetters) : c = UpperLetters[i] \/ c = LowerLetters[i]
    \/ c \in {"0", "1", "2", "3", "4", "5", "6", "7", "8", "9", "_"}

\* \bword\b matches at position p, letter case ignored
WordAt(text, p, word) ==
    /\ MatchAt(text, p, word)
    /\ p = 1 \/ ~IsWordChar(text[p - 1])
    /\ p + Len(word) > Len(text) \/ ~IsWordChar(text[p + Len(word)])

WordJoin == <<"j", "o", "i", "n">>
WordOn == <<"o", "n">>
WordUsing == <<"u", "s", "i", "n", "g">>
WordWhere == <<"w", "h", "e", "r", "e">>

\* positions where \bjoin\b\s+ matches
JoinStarts(text) ==
    {p \in 1..Len(text) :
        WordAt(text, p, WordJoin) /\ p + 4 <= Len(text) /\ IsWs(text[p + 4])}

\* positions after the join at p where \b(on|using)\b matches
KeywordsAfter(text, p) ==
    {k \in (p + 5)..Len(text) : WordAt(text, k, WordOn) \/ WordAt(text, k, WordUsing)}

\* the keyword the lazy .*? stops at
FirstKeyword(text, p) ==
    CHOOSE k \in KeywordsAfter(text, p) : \A j \in KeywordsAfter(text, p) : k <= j

\* first position after the keyword where the lookahead
\* (?=\bjoin\b|\bwhere\b|$) holds
ClauseEnd(text, from) ==
    CHOOSE q \in from..(Len(text) + 1) :
        /\ q = Len(text) + 1 \/ WordAt(text, q, WordJoin) \/ WordAt(text, q, WordWhere)
        /\ \A j \in from..(q - 1) :
               ~(WordAt(text, j, WordJoin) \/ WordAt(text, j, WordWhere))

\* group(2) of the match that starts at the join at p
JoinClause(text, p) ==
    IF WordAt(text, FirstKeyword(text, p), WordOn)
    THEN SubSeq(text, FirstKeyword(text, p) + 2,
                ClauseEnd(text, FirstKeyword(text, p) + 2) - 1)
    ELSE <<>>

\* _has_join_without_equality(sql)
HasJoinWithoutEquality(text) ==
    \/ \E p \in JoinStarts(text) :
          /\ KeywordsAfter(text, p) # {}
          /\ WordAt(text, FirstKeyword(text, p), WordOn)
          /\ ~HasChar(JoinClause(text, p), "=")
    \/ /\ \A p \in JoinStarts(text) : KeywordsAfter(text, p) = {}
       /\ \E p \in 1..Len(text) : WordAt(text, p, WordJoin)

\* float(preview_stats["join_cardinality_est"]) when it is a number
JoinCardinality(stats) ==
    IF stats = PyNone THEN PyNone
    ELSE IF stats.join_cardinality_est.type = "int" THEN stats.join_cardinality_est
    ELSE PyNone

\* the row counts _largest_base_table collects
BaseCandidates(stats) ==
    (IF stats.base_table_row_counts = PyNone THEN {}
     ELSE {stats.base_table_row_counts.d[t] : t \in DOMAIN stats.base_table_row_counts.d})
    \cup (IF stats.row_count_est.type = "int" THEN {stats.row_count_est.n} ELSE {})

\* _largest_base_table(preview_stats): 0 stands for None
LargestBaseTable(stats) ==
    IF stats = PyNone \/ BaseCandidates(stats) = {} THEN 0
    ELSE CHOOSE n \in BaseCandidates(stats) : \A k \in BaseCandidates(stats) : k <= n

\* preview_stats["distinct_counts"] when it is a dict
DistinctCounts(stats) ==
    IF stats = PyNone THEN PyNone ELSE stats.distinct_counts

RECURSIVE EstimateProduct(_, _, _)
\* the loop of _estimate_groups: 0 stands for "return None"
EstimateProduct(group_by, counts, estimate) ==
    IF group_by = <<>> THEN estimate
    ELSE IF Head(group_by) \notin DOMAIN counts THEN 0
    ELSE IF counts[Head(group_by)] <= 0 THEN 0
    ELSE EstimateProduct(Tail(group_by), counts, estimate * counts[Head(group_by)])

\* _estimate_groups(group_by, distinct_counts, join_cardinality_est); the
\* counts drawn keep every product under 1e12, the early exit for runaway
\* numbers
EstimateGroups(group_by, distinct_counts, join_cardinality_est) ==
    IF group_by = <<>> \/ distinct_counts = PyNone THEN PyNone
    ELSE IF DOMAIN distinct_counts.d = {} THEN PyNone
    ELSE IF EstimateProduct(group_by, distinct_counts.d, 1) = 0 THEN PyNone
    ELSE IF Truthy(join_cardinality_est)
    THEN PyInt(EstimateProduct(group_by, distinct_counts.d, 1) * join_cardinality_est.n)
    ELSE PyInt(EstimateProduct(group_by, distinct_counts.d, 1))

\* "estimated_groups and estimated_groups > cfg['MAX_ROWS']"
OverCap(estimate, cfg) == estimate.type = "int" /\ estimate.n > cfg.MAX_ROWS

\* group_by as the row cap step reads it
GroupByList(e) == IF e.group_by.type = "list" THEN e.group_by.items ELSE <<>>

\* the row cap step, first half: keep only the first group_by dimension
RowCapTrim(e, group_by, counts, join_cardinality, cfg) ==
    IF /\ OverCap(EstimateGroups(group_by, counts, join_cardinality), cfg)
       /\ Len(group_by) > 1
    THEN [e |-> [e EXCEPT !.group_by = PyList(SubSeq(group_by, 1, 1))],
          over |-> TRUE,
          estimate |-> EstimateGroups(SubSeq(group_by, 1, 1), counts, join_cardinality),
          diagnostics |->
              <<Diag("row_cap_exceeded",
                     "Expected fan-out exceeds row cap; keeping only first group_by dimension.",
                     [estimated_groups |-> EstimateGroups(group_by, counts, join_cardinality),
                      dropped |-> Tail(group_by),
                      kept |-> SubSeq(group_by, 1, 1)])>>,
          rowcap_modified |-> TRUE,
          top_k |-> PyNone]
    ELSE [e |-> e,
          over |-> OverCap(EstimateGroups(group_by, counts, join_cardinality), cfg),
          estimate |-> EstimateGroups(group_by, counts, join_cardinality),
          diagnostics |-> <<>>,
          rowcap_modified |-> FALSE,
          top_k |-> PyNone]

\* a second half that forces the TOP-K limit without looking at the estimate
RowCapTopK_Always(r, cfg) ==
    IF r.over
    THEN [r EXCEPT
            !.e.limit = IF @.type # "int" \/ @.n > cfg.TOP_K_DEFAULT
                        THEN PyInt(cfg.TOP_K_DEFAULT) ELSE @,
            !.diagnostics = Append(@, Diag("row_cap_exceeded",
                                           "Applied TOP-K to enforce row cap safety.",
                                           [estimated_groups |-> r.estimate,
                                            top_k |-> cfg.TOP_K_DEFAULT])),
            !.top_k = PyInt(cfg.TOP_K_DEFAULT),
            !.rowcap_modified = TRUE]
    ELSE r

\* the row cap step, second half: force the default TOP-K limit
RowCapTopK(r, cfg) ==
    IF r.over /\ (~Truthy(r.estimate) \/ r.estimate.n > cfg.MAX_ROWS)
    THEN [r EXCEPT
            !.e.limit = IF @.type # "int" \/ @.n > cfg.TOP_K_DEFAULT
                        THEN PyInt(cfg.TOP_K_DEFAULT) ELSE @,
            !.diagnostics = Append(@, Diag("row_cap_exceeded",
                                           "Applied TOP-K to enforce row cap safety.",
                                           [estimated_groups |-> r.estimate,
                                            top_k |-> cfg.TOP_K_DEFAULT])),
            !.top_k = PyInt(cfg.TOP_K_DEFAULT),
            !.rowcap_modified = TRUE]
    ELSE r

\* "sub in s" for strings
Contains(s, sub) ==
    \E p \in 1..(Len(s) - Len(sub) + 1) : SubSeq(s, p, p + Len(sub) - 1) = sub

\* canonical.get(column): the known values of a column, <<>> when none
KnownValues(cfg, column) ==
    IF cfg.canonical_values = PyNone THEN <<>>
    ELSE IF column \in DOMAIN cfg.canonical_values.d THEN cfg.canonical_values.d[column]
    ELSE <<>>

\* the filter is downgraded to an ILIKE match
FallsBack(flt, cfg) ==
    /\ flt.value.type = "str"
    /\ KnownValues(cfg, flt.field) # <<>>
    /\ \A k \in 1..Len(KnownValues(cfg, flt.field)) :
           KnownValues(cfg, flt.field)[k] # flt.value.s

\* flt["op"] = "ilike"; flt["value"] = f"%{value}%"
Downgrade(flt) ==
    [flt EXCEPT !.op = "ilike", !.value = PyStr(<<"%">> \o flt.value.s \o <<"%">>)]

\* [v for v in known_values if value.lower() in str(v).lower()][:5]
FallbackMatches(value, known) ==
    SubSeq(SelectSeq(known, LAMBDA v : Contains(Lower(v), Lower(value))), 1,
           IF Len(SelectSeq(known, LAMBDA v : Contains(Lower(v), Lower(value)))) < 5
           THEN Len(SelectSeq(known, LAMBDA v : Contains(Lower(v), Lower(value))))
           ELSE 5)

\* the filters after the unknown-value fallback
FallbackFilters(filters, cfg) ==
    [k \in 1..Len(filters) |->
        IF FallsBack(filters[k], cfg) THEN Downgrade(filters[k]) ELSE filters[k]]

RECURSIVE FallbackDiagnostics(_, _)
\* the unknown_value_fallback diagnostics, in filter order
FallbackDiagnostics(filters, cfg) ==
    IF filters = <<>> THEN <<>>
    ELSE (IF FallsBack(Head(filters), cfg)
          THEN <<Diag("unknown_value_fallback", "Falling back to ILIKE match.",
                      [column |-> Head(filters).field,
                       value |-> Head(filters).value,
                       matches |-> FallbackMatches(Head(filters).value.s,
                                       KnownValues(cfg, Head(filters).field))])>>
          ELSE <<>>)
         \o FallbackDiagnostics(Tail(filters), cfg)

\* the unknown-value fallback and _ensure_limit, then the normal return
Finish(r, sql, cfg) ==
    [decision |-> IF r.rowcap_modified THEN "rewrite" ELSE "allow",
     effective_nql |->
         [r.e EXCEPT
             !.filters = IF @.type = "list"
                         THEN PyList(FallbackFilters(@.items, cfg)) ELSE @,
             !.limit = IF @ = PyNone THEN PyInt(cfg.DEFAULT_LIMIT) ELSE @],
     effective_sql |-> PyStr(sql),
     diagnostics |->
         r.diagnostics
         \o (IF r.e.filters.type = "list"
             THEN FallbackDiagnostics(r.e.filters.items, cfg) ELSE <<>>),
     limits |-> [row_cap |-> cfg.MAX_ROWS, applied |-> r.rowcap_modified,
                 top_k |-> r.top_k],
     postflight_numeric_ok |-> TRUE]

\* validate_plan from the join checks on
AfterTime(e, sql, stats, cfg) ==
    IF HasJoinWithoutEquality(sql)
    THEN Blocked(e,
                 <<Diag("join_cardinality_exceeded",
                        "Join detected without equality predicate.", NoKeys),
                   Diag("blocked_query", "Execution blocked due to unsafe join.", NoKeys)>>,
                 cfg)
    ELSE IF /\ JoinCardinality(stats) # PyNone
            /\ LargestBaseTable(stats) # 0
            /\ JoinCardinality(stats).n > cfg.JOIN_BLOWUP_FACTOR * LargestBaseTable(stats)
    THEN Blocked(e,
                 <<Diag("join_cardinality_exceeded",
                        "Join cardinality estimate exceeds safety threshold.",
                        [join_cardinality_est |-> JoinCardinality(stats).n,
                         largest_base_table |-> LargestBaseTable(stats),
                         threshold |-> cfg.JOIN_BLOWUP_FACTOR]),
                   Diag("blocked_query",
                        "Execution blocked. Reduce scope or constrain joins.", NoKeys)>>,
                 cfg)
    ELSE Finish(RowCapTopK(RowCapTrim(e, GroupByList(e), DistinctCounts(stats),
                                      JoinCardinality(stats), cfg),
                           cfg),
                sql, cfg)

\* the message of the span diagnostic's companion
SuggestedRewrite == "Suggested rewrite: snap to last 12 months."

\* the span exit without the suggested rewrite
SpanBlocked_NoSuggestion(e, start, end, cfg) ==
    Blocked(e,
            <<Diag("ambiguous_time", "Time range exceeds maximum allowed span.",
                   [start |-> IsoFormat(start), end |-> IsoFormat(end),
                    max_years |-> cfg.MAX_TIME_RANGE_YEARS])>>,
            cfg)

\* the span exit: the suggested window is written into effective_nql["time"]
SpanBlocked(e, start, end, cfg) ==
    Blocked([e EXCEPT !.time = [@ EXCEPT
                                   !["start"] = IsoFormat(MinusDays(end, 365)),
                                   !["end"] = IsoFormat(end)]],
            <<Diag("ambiguous_time", "Time range exceeds maximum allowed span.",
                   [start |-> IsoFormat(start), end |-> IsoFormat(end),
                    max_years |-> cfg.MAX_TIME_RANGE_YEARS]),
              Diag("blocked_query", SuggestedRewrite,
                   [suggested_start |-> IsoFormat(MinusDays(end, 365)),
                    suggested_end |-> IsoFormat(end)])>>,
            cfg)

\* validate_plan from the time sanity checks on
AfterSelectStar(e, sql, stats, cfg) ==
    IF ~(/\ Truthy(TimeGet(e, "start")) /\ Truthy(TimeGet(e, "end"))
         /\ FromIsoOk(TimeGet(e, "start")) /\ FromIsoOk(TimeGet(e, "end")))
    THEN Blocked(e,
                 <<Diag("ambiguous_time",
                        "Time range must include valid start and end dates.",
                        [start |-> TimeGet(e, "start"), end |-> TimeGet(e, "end")])>>,
                 cfg)
    ELSE IF ToOrdinal(TimeGet(e, "end").iso) <= ToOrdinal(TimeGet(e, "start").iso)
    THEN Blocked(e,
                 <<Diag("ambiguous_time", "End date must be after start date.",
                        [start |-> TimeGet(e, "start"), end |-> TimeGet(e, "end")])>>,
                 cfg)
    ELSE IF ToOrdinal(TimeGet(e, "end").iso) - ToOrdinal(TimeGet(e, "start").iso)
               > cfg.MAX_TIME_RANGE_YEARS * 366
    THEN SpanBlocked(e, TimeGet(e, "start").iso, TimeGet(e, "end").iso, cfg)
    ELSE AfterTime(e, sql, stats, cfg)

\* validate_plan(nql, sql, preview_stats, config)
ValidatePlan(nql, sql, stats, config) ==
    IF SelectStarSearch(sql)
    THEN Blocked(CopyNql(nql),
                 <<Diag("unsafe_select_star",
                        "SELECT * detected. Explicit column selection required.", NoKeys)>>,
                 DefaultConfig(config))
    ELSE AfterSelectStar(CopyNql(nql), sql, stats, DefaultConfig(config))

(***************************************************************************)
(* Specification of one validate_plan call: Init draws the nql dict, the   *)
(* SQL text, the preview statistics and the configuration.                 *)
(***************************************************************************)

\* nql["time"] values: spans of 15 and 16 years, of ten years and four days,
\* of exactly ten years, of one year; an empty and a reversed range; a
\* missing and an unparseable bound; a serialized TimeSpec; no time at all
PlanTimes ==
    { [start |-> IsoStr(2005, 1, 1), end |-> IsoStr(2020, 1, 1)],
      [start |-> IsoStr(2008, 6, 1), end |-> IsoStr(2024, 6, 1)],
      [start |-> IsoStr(2010, 1, 1), end |-> IsoStr(2020, 1, 5)],
      [start |-> IsoStr(2010, 1, 1), end |-> IsoStr(2020, 1, 1)],
      [start |-> IsoStr(2023, 1, 1), end |-> IsoStr(2024, 1, 1)],
      [start |-> IsoStr(2024, 1, 1), end |-> IsoStr(2024, 1, 1)],
      [start |-> IsoStr(2024, 1, 1), end |-> IsoStr(2023, 1, 1)],
      [start |-> PyNone, end |-> IsoStr(2024, 1, 1)],
      [start |-> IsoStr(2023, 1, 1), end |-> PyStr(<<"n", "o", "w">>)],
      [grain |-> "month",
       window |-> [type |-> "absolute", start |-> IsoStr(2023, 1, 1),
                   end |-> IsoStr(2024, 1, 1)]],
      PyNone }

PlanGroupBys ==
    { PyNone,
      PyList(<<"area">>),
      PyList(<<"premise">>),
      PyList(<<"area", "crime_type">>),
      PyList(<<"premise", "area">>),
      PyList(<<"area", "crime_type", "premise">>) }

PlanLimits == {PyNone, PyInt(50), PyInt(500)}

\* a filter on area with a value that is, or is not, a known value
ValueCent == <<"C", "e", "n", "t">>
ValueCentral == <<"C", "e", "n", "t", "r", "a", "l">>
ValueHarbor == <<"H", "a", "r", "b", "o", "r">>

PlanFilter(value) == [field |-> "area", op |-> "=", value |-> PyStr(value)]

KnownAreas == [canonical_values |-> PyDict([area |-> <<ValueCentral, ValueHarbor>>])]

\* (nql["filters"], config)
PlanFilterConfigs ==
    { <<PyNone, PyNone>>,
      <<PyList(<<PlanFilter(ValueCent)>>), PyNone>>,
      <<PyList(<<PlanFilter(ValueCent)>>), KnownAreas>>,
      <<PyList(<<PlanFilter(ValueCentral)>>), KnownAreas>> }

AllCounts == PyDict([area |-> 21, crime_type |-> 140, premise |-> 12000])

PreviewStats(distinct_counts, join_cardinality_est, base_table_row_counts) ==
    [distinct_counts |-> distinct_counts,
     join_cardinality_est |-> join_cardinality_est,
     base_table_row_counts |-> base_table_row_counts,
     row_count_est |-> PyNone]

PlanStats ==
    { PyNone,
      PreviewStats(AllCounts, PyNone, PyNone),
      PreviewStats(PyDict([area |-> 21]), PyNone, PyNone),
      PreviewStats(AllCounts, PyInt(3), PyNone),
      PreviewStats(AllCounts, PyInt(3), PyDict([t |-> 1000])),
      PreviewStats(AllCounts, PyInt(50000), PyDict([t |-> 1000])) }

\* SQL shapes: the select list, and the join that follows the FROM clause
PlanSqls ==
    { [items |-> <<"a">>, join |-> j] : j \in {"none", "on =", "on <", "using", "bare"} }
    \cup { [items |-> <<"*">>, join |-> "none"] }

JoinText(join) ==
    CASE join = "on =" -> <<" ", "J", "O", "I", "N", " ", "u", " ", "O", "N", " ", "k", " ", "=", " ", "j">>
      [] join = "on <" -> <<" ", "J", "O", "I", "N", " ", "u", " ", "O", "N", " ", "k", " ", "<", " ", "j">>
      [] join = "using" -> <<" ", "j", "o", "i", "n", " ", "u", " ", "u", "s", "i", "n", "g", " ", "(", "k", ")">>
      [] join = "bare" -> <<" ", "J", "O", "I", "N", " ", "u">>
      [] OTHER -> <<>>

\* the SQL text handed to validate_plan
SqlText(sql) == RenderMain("SELECT", sql.items) \o JoinText(sql.join)

\* validate_plan(nql, sql, preview_stats, config), run to completion
ValidatePlanCall ==
    /\ vp_out = NotRun
    /\ vp_out' = ValidatePlan(vp_nql, SqlText(vp_sql), vp_stats, vp_cfg)
    /\ UNCHANGED <<vp_nql, vp_sql, vp_stats, vp_cfg, g_stmt, g_limit, g_out,
                   tk_plan, tk_base, tk_query, tk_out,
                   resolverVars, nqlVars, storeVars, promoterVars, watcherVars,
                   canonVars, lockVars>>

InitValidatePlan ==
    /\ StoreIdle
    /\ CanonInit
    /\ LockIdle
    /\ ResolverIdle
    /\ NqlIdle
    /\ g_stmt = None /\ g_limit = None /\ g_out = None
    /\ \E time \in PlanTimes, group_by \in PlanGroupBys, limit \in PlanLimits,
          fc \in PlanFilterConfigs :
          /\ vp_nql = [time |-> time, group_by |-> group_by, limit |-> limit,
                       filters |-> fc[1]]
          /\ vp_cfg = fc[2]
    /\ vp_sql \in PlanSqls
    /\ vp_stats \in PlanStats
    /\ vp_out = NotRun
    /\ TopKIdle

NextValidatePlan == ValidatePlanCall

SpecValidatePlan == InitValidatePlan /\ [][NextValidatePlan]_vars

\* the call has returned and the SQL text passed the SELECT * check
PlanChecked == vp_out # NotRun /\ ~SelectStarSearch(SqlText(vp_sql))

\* both bounds of nql["time"] are present and parse as dates
BoundsParse ==
    /\ Truthy(TimeGet(vp_nql, "start")) /\ FromIsoOk(TimeGet(vp_nql, "start"))
    /\ Truthy(TimeGet(vp_nql, "end")) /\ FromIsoOk(TimeGet(vp_nql, "end"))

PlanStart == TimeGet(vp_nql, "start").iso
PlanEnd == TimeGet(vp_nql, "end").iso

\* date a is before date b
Before(a, b) ==
    \/ a.year < b.year
    \/ a.year = b.year /\ a.month < b.month
    \/ a.year = b.year /\ a.month = b.month /\ a.day < b.day

\* the same day, a number of years later
YearsLater(d, years) == [d EXCEPT !.year = @ + years]

\* the diagnostics carry a suggested rewrite to the window [start, end)
Suggests(start, end) ==
    \E k \in 1..Len(vp_out.diagnostics) :
        /\ vp_out.diagnostics[k].type = "blocked_query"
        /\ vp_out.diagnostics[k].message = SuggestedRewrite
        /\ vp_out.diagnostics[k].details.suggested_start = IsoFormat(start)
        /\ vp_out.diagnostics[k].details.suggested_end = IsoFormat(end)

\* a range that is empty or reversed, or a bound missing or unparseable,
\* is blocked
BadRangeBlocked ==
    (PlanChecked /\ (~BoundsParse \/ ~Before(PlanStart, PlanEnd))) =>
        vp_out.decision = "block" /\ vp_out.effective_sql = PyNone

SpanOverDays ==
    ToOrdinal(PlanEnd) - ToOrdinal(PlanStart)
        > DefaultConfig(vp_cfg).MAX_TIME_RANGE_YEARS * 366

ReachedRowCap == vp_out # NotRun /\ vp_out.decision # "block"

\* estimated groups of a group_by list under the call's preview statistics
Estimated(group_by) ==
    EstimateGroups(group_by, DistinctCounts(vp_stats), JoinCardinality(vp_stats))

\* the estimate for the group_by list is over the row cap
Over(group_by) == OverCap(Estimated(group_by), DefaultConfig(vp_cfg))

\* what is left of group_by after the first step
KeptGroupBy ==
    IF Over(GroupByList(vp_nql)) /\ Len(GroupByList(vp_nql)) > 1
    THEN SubSeq(GroupByList(vp_nql), 1, 1)
    ELSE GroupByList(vp_nql)

RowCapDiagnostics ==
    {k \in 1..Len(vp_out.diagnostics) : vp_out.diagnostics[k].type = "row_cap_exceeded"}

\* the limit of effective_nql is the default TOP-K, or the smaller limit given
TopKForced ==
    /\ vp_out.limits.top_k = PyInt(DefaultConfig(vp_cfg).TOP_K_DEFAULT)
    /\ vp_out.effective_nql.limit.type = "int"
    /\ vp_out.effective_nql.limit.n <= DefaultConfig(vp_cfg).TOP_K_DEFAULT
    /\ vp_nql.limit.type = "int" =>
           vp_out.effective_nql.limit.n
               = MinOf(vp_nql.limit.n, DefaultConfig(vp_cfg).TOP_K_DEFAULT)

\* no TOP-K: a limit that was given is the limit of effective_nql
TopKNotForced ==
    /\ vp_out.limits.top_k = PyNone
    /\ vp_nql.limit # PyNone => vp_out.effective_nql.limit = vp_nql.limit

\* C17: when the estimated groups (product of the per-dimension distinct
\* counts times the join multiplier) exceed the row cap, a group_by of more
\* than one dimension is cut to its first dimension and the estimate is
\* taken again; the default TOP-K limit is forced only if that estimate is
\* still over the cap; each step adds a row_cap_exceeded diagnostic and the
\* decision is 'rewrite'. When the estimate is within the cap, group_by and
\* a given limit are left alone and the decision stays 'allow'.
C17_RowCapRewrites ==
    ReachedRowCap =>
        IF Over(GroupByList(vp_nql))
        THEN /\ vp_out.decision = "rewrite"
             /\ vp_out.limits.applied
             /\ vp_out.effective_nql.group_by = PyList(KeptGroupBy)
             /\ IF Over(KeptGroupBy) THEN TopKForced ELSE TopKNotForced
             /\ Cardinality(RowCapDiagnostics)
                    = (IF Len(GroupByList(vp_nql)) > 1 THEN 1 ELSE 0)
                      + (IF Over(KeptGroupBy) THEN 1 ELSE 0)
        ELSE /\ vp_out.decision = "allow"
             /\ ~vp_out.limits.applied
             /\ vp_out.effective_nql.group_by = vp_nql.group_by
             /\ TopKNotForced
             /\ RowCapDiagnostics = {}

\* a group_by of two dimensions was cut to the first and, the estimate being
\* still over the cap, the TOP-K limit was forced on a larger limit
C17_Witness ==
    /\ ReachedRowCap
    /\ Len(GroupByList(vp_nql)) > 1
    /\ Over(GroupByList(vp_nql))
    /\ Over(KeptGroupBy)
    /\ vp_nql.limit = PyInt(500)
    /\ vp_out.decision = "rewrite"
    /\ vp_out.effective_nql.limit = PyInt(100)
    /\ Cardinality(RowCapDiagnostics) = 2

(***************************************************************************)
(* canonical_map rows per (dimension, lower(synonym))                      *)
(***************************************************************************)

\* CREATE UNIQUE INDEX canonical_map_dim_syn ON canonical_map(dim, synonym):
\* the index compares the synonym as stored, letter case included. The
\* synonyms of PromoteArgs are pairwise different strings, so no INSERT or
\* UPDATE of the model is rejected by it.
UniqueIndex(tbl) ==
    \A i, j \in 1..Len(tbl) :
        (tbl[i].dim = tbl[j].dim /\ tbl[i].synonym = tbl[j].synonym) => i = j

\* rows of the table that hold the same dimension and the same synonym up to
\* letter case
SameKeyRows(tbl, i) ==
    {j \in 1..Len(tbl) : tbl[j].dim = tbl[i].dim
                          /\ Lower(tbl[j].synonym) = Lower(tbl[i].synonym)}

\* C18: after any sequence or concurrent interleaving of promote() calls,
\* canonical_map holds at most one row per (dimension, lower(synonym)): a
\* promote of a synonym that differs only in letter case from a stored one
\* updates that row instead of adding a second one.
C18_OneRowPerLowerSynonym ==
    \A i \in 1..Len(rows) : SameKeyRows(rows, i) = {i}

(***************************************************************************)
(* internal_window of a month-over-month comparison                        *)
(***************************************************************************)

\* the month before and the month after the month of d, by the calendar
PreviousMonthStart(d) ==
    IF d.month = 1 THEN [year |-> d.year - 1, month |-> 12, day |-> 1]
    ELSE [year |-> d.year, month |-> d.month - 1, day |-> 1]

NextMonthStart(d) ==
    IF d.month = 12 THEN [year |-> d.year + 1, month |-> 1, day |-> 1]
    ELSE [year |-> d.year, month |-> d.month + 1, day |-> 1]

\* the month filters of the plan given to resolve()
GivenMonthFilters == MonthFilters(rs_plan.filters)

\* resolve() returned a plan for a mom comparison with one month filter
MomResolved ==
    /\ rs_out.status = "ok"
    /\ Truthy(rs_plan.compare)
    /\ rs_plan.compare.d.type = "mom"
    /\ Len(GivenMonthFilters) = 1

\* the month filter is "= M"; M is the start of the month
EqualityOn(f) == f.op = OpEq /\ f.value.type = "str"

\* the month filter is between [M, M + 1 month)
OneMonthRange(f) ==
    /\ f.op = OpBetween
    /\ f.value.type = "list"
    /\ Len(f.value.items) = 2
    /\ f.value.items[2].iso = NextMonthStart(f.value.items[1].iso)

\* the filter is a range that ends after M + 1 month
LongerRange(f) ==
    /\ f.op = OpBetween
    /\ f.value.type = "list"
    /\ Len(f.value.items) = 2
    /\ f.value.items[2].iso # f.value.items[1].iso
    /\ f.value.items[2].iso # NextMonthStart(f.value.items[1].iso)

\* the month M the filter targets
TargetMonth(f) == IF f.value.type = "list" THEN f.value.items[1].iso ELSE f.value.iso

\* between [M - 1 month, M + 1 month) on month
WindowAround(m) ==
    [field |-> "month", op |-> OpBetween,
     value |-> PyList(<<IsoFormat(PreviousMonthStart(m)), IsoFormat(NextMonthStart(m))>>)]

\* C19: for a mom comparison whose month filter is an equality on month M
\* or the range [M, M + 1 month), resolve() sets internal_window to
\* between [M - 1 month, M + 1 month), across the turn of the year too;
\* for a month range longer than one month there is no internal_window.
C19_MomInternalWindow ==
    MomResolved =>
        /\ (EqualityOn(GivenMonthFilters[1]) \/ OneMonthRange(GivenMonthFilters[1])) =>
               /\ "internal_window" \in DOMAIN rs_out.plan
               /\ rs_out.plan.internal_window = WindowAround(TargetMonth(GivenMonthFilters[1]))
        /\ LongerRange(GivenMonthFilters[1]) =>
               "internal_window" \notin DOMAIN rs_out.plan

\* the range December 2023: the window runs from November 2023 to January 2024
C19_Witness ==
    /\ MomResolved
    /\ OneMonthRange(GivenMonthFilters[1])
    /\ TargetMonth(GivenMonthFilters[1]).month = 12
    /\ rs_out.plan.internal_window.value =
           PyList(<<IsoStr(2023, 11, 1), IsoStr(2024, 1, 1)>>)

(***************************************************************************)
(* sql_builder: top-k within group. build() routes a plan that carries a   *)
(* top_k_within_group dict to _build_v2_topk_within_group_sql; the query   *)
(* it builds is kept by its clauses and run on a small la_crime_raw.       *)
(***************************************************************************)

\* top_k_dict.get("k", 5), top_k_dict.get("by", "incidents")
TopKSpec(k, by) == [k |-> k, by |-> by]

\* PARTITION BY 1 whatever group_by holds
PartitionDims_Global(group_by) == <<>>

\* partition_dims = group_by[:-1] when len(group_by) > 1; PARTITION BY 1
\* (the empty list here) otherwise
PartitionDims(group_by) ==
    IF Len(group_by) > 1 THEN SubSeq(group_by, 1, Len(group_by) - 1) ELSE <<>>

\* metric_expr: "<expression> AS <metrics[0]>" for a known first metric,
\* "COUNT(*) AS incidents" otherwise; the alias is what matters below
MetricAlias(metrics) ==
    IF metrics # <<>> /\ metrics[1] \in SemanticMetrics THEN metrics[1] ELSE "incidents"

\* _build_v2_topk_within_group_sql(base_cte, top_k_dict, filters, group_by,
\* metrics, semantic, limit): dimension_expression raises KeyError for a
\* dimension the semantic model lacks
BuildTopKWithinGroupSql(top_k_dict, group_by, metrics, limit) ==
    IF \E i \in 1..Len(group_by) : group_by[i] \notin SemanticDimensions
    THEN [status |-> "KeyError"]
    ELSE [status |-> "ok",
          agg |-> [select |-> group_by, metric |-> MetricAlias(metrics),
                   group_by |-> group_by],
          ranked |-> [partition_by |-> PartitionDims(group_by),
                      order_by |-> top_k_dict.by, dir |-> "DESC"],
          output_cols |-> Append(group_by, top_k_dict.by),
          where_rn_le |-> top_k_dict.k,
          limit |-> limit]

(***************************************************************************)
(* sql_builder.build: the SQL text of the default and of the mom / yoy     *)
(* branch, character by character. The semantic model has the metric       *)
(* incidents (agg count) and the dimensions month, area and weapon.        *)
(***************************************************************************)

\* WITH base AS (SELECT DATE_TRUNC('month', "DATE OCC") AS month, * FROM la_crime_raw)
TxtBaseCte ==
    <<"W", "I", "T", "H", " ", "b", "a", "s", "e", " ", "A", "S", " ", "(", "S", "E",
      "L", "E", "C", "T", " ", "D", "A", "T", "E", "_", "T", "R", "U", "N", "C", "(",
      "'", "m", "o", "n", "t", "h", "'", ",", " ", "\"", "D", "A", "T", "E", " ", "O",
      "C", "C", "\"", ")", " ", "A", "S", " ", "m", "o", "n", "t", "h", ",", " ", "*",
      " ", "F", "R", "O", "M", " ", "l", "a", "_", "c", "r", "i", "m", "e", "_", "r",
      "a", "w", ")">>

\* COUNT(*)
TxtCountStar ==
    <<"C", "O", "U", "N", "T", "(", "*", ")">>

\* SELECT 
TxtSelect ==
    <<"S", "E", "L", "E", "C", "T", " ">>

\*  FROM base
TxtFromBase ==
    <<" ", "F", "R", "O", "M", " ", "b", "a", "s", "e">>

\* WHERE 
TxtWhere ==
    <<"W", "H", "E", "R", "E", " ">>

\*  AND 
TxtAnd ==
    <<" ", "A", "N", "D", " ">>

\*  OR 
TxtOr ==
    <<" ", "O", "R", " ">>

\*  AS 
TxtAs ==
    <<" ", "A", "S", " ">>

\* , 
TxtComma ==
    <<",", " ">>

\* GROUP BY 
TxtGroupBy ==
    <<"G", "R", "O", "U", "P", " ", "B", "Y", " ">>

\* ORDER BY 
TxtOrderBy ==
    <<"O", "R", "D", "E", "R", " ", "B", "Y", " ">>

\*  LIMIT 
TxtLimit ==
    <<" ", "L", "I", "M", "I", "T", " ">>

\*  = DATE 
TxtEqDate ==
    <<" ", "=", " ", "D", "A", "T", "E", " ">>

\*  >= DATE 
TxtGeDate ==
    <<" ", ">", "=", " ", "D", "A", "T", "E", " ">>

\*  < DATE 
TxtLtDate ==
    <<" ", "<", " ", "D", "A", "T", "E", " ">>

\*  IN (
TxtIn ==
    <<" ", "I", "N", " ", "(">>

\*  BETWEEN 
TxtBetween ==
    <<" ", "B", "E", "T", "W", "E", "E", "N", " ">>

\* LOWER(
TxtLowerOpen ==
    <<"L", "O", "W", "E", "R", "(">>

\* ) LIKE 
TxtCloseLike ==
    <<")", " ", "L", "I", "K", "E", " ">>

\* NULL
TxtNull ==
    <<"N", "U", "L", "L">>

\* , aggregated AS (
TxtAggregatedOpen ==
    <<",", " ", "a", "g", "g", "r", "e", "g", "a", "t", "e", "d", " ", "A", "S", " ",
      "(">>

\* ), ranked AS (SELECT aggregated.*, LAG(incidents, 
TxtRankedOpen ==
    <<")", ",", " ", "r", "a", "n", "k", "e", "d", " ", "A", "S", " ", "(", "S", "E",
      "L", "E", "C", "T", " ", "a", "g", "g", "r", "e", "g", "a", "t", "e", "d", ".",
      "*", ",", " ", "L", "A", "G", "(", "i", "n", "c", "i", "d", "e", "n", "t", "s",
      ",", " ">>

\* ) OVER (
TxtOver ==
    <<")", " ", "O", "V", "E", "R", " ", "(">>

\*  ORDER BY month) AS prior_incidents FROM aggregated)
TxtRankedClose ==
    <<" ", "O", "R", "D", "E", "R", " ", "B", "Y", " ", "m", "o", "n", "t", "h", ")",
      " ", "A", "S", " ", "p", "r", "i", "o", "r", "_", "i", "n", "c", "i", "d", "e",
      "n", "t", "s", " ", "F", "R", "O", "M", " ", "a", "g", "g", "r", "e", "g", "a",
      "t", "e", "d", ")">>

\* PARTITION BY 
TxtPartitionBy ==
    <<"P", "A", "R", "T", "I", "T", "I", "O", "N", " ", "B", "Y", " ">>

\* incidents, CASE WHEN prior_incidents IS NULL OR prior_incidents = 0 THEN NULL ELSE (incidents - prior_incidents) * 100.0 / prior_incidents END AS change_pct, month FROM ranked
TxtIncidentsCase ==
    <<"i", "n", "c", "i", "d", "e", "n", "t", "s", ",", " ", "C", "A", "S", "E", " ",
      "W", "H", "E", "N", " ", "p", "r", "i", "o", "r", "_", "i", "n", "c", "i", "d",
      "e", "n", "t", "s", " ", "I", "S", " ", "N", "U", "L", "L", " ", "O", "R", " ",
      "p", "r", "i", "o", "r", "_", "i", "n", "c", "i", "d", "e", "n", "t", "s", " ",
      "=", " ", "0", " ", "T", "H", "E", "N", " ", "N", "U", "L", "L", " ", "E", "L",
      "S", "E", " ", "(", "i", "n", "c", "i", "d", "e", "n", "t", "s", " ", "-", " ",
      "p", "r", "i", "o", "r", "_", "i", "n", "c", "i", "d", "e", "n", "t", "s", ")",
      " ", "*", " ", "1", "0", "0", ".", "0", " ", "/", " ", "p", "r", "i", "o", "r",
      "_", "i", "n", "c", "i", "d", "e", "n", "t", "s", " ", "E", "N", "D", " ", "A",
      "S", " ", "c", "h", "a", "n", "g", "e", "_", "p", "c", "t", ",", " ", "m", "o",
      "n", "t", "h", " ", "F", "R", "O", "M", " ", "r", "a", "n", "k", "e", "d">>

\* base."DATE OCC"
TxtDateOcc ==
    <<"b", "a", "s", "e", ".", "\"", "D", "A", "T", "E", " ", "O", "C", "C", "\"">>

\* AREA NAME
TxtAreaColumn ==
    <<"A", "R", "E", "A", " ", "N", "A", "M", "E">>

\* Weapon Desc
TxtWeaponColumn ==
    <<"W", "e", "a", "p", "o", "n", " ", "D", "e", "s", "c">>

\* None
TxtNone ==
    <<"N", "o", "n", "e">>

\* the characters of an identifier of the plan
NameText(name) ==
    CASE name = "area" -> <<"a", "r", "e", "a">>
      [] name = "weapon" -> <<"w", "e", "a", "p", "o", "n">>
      [] name = "month" -> <<"m", "o", "n", "t", "h">>
      [] name = "incidents" -> <<"i", "n", "c", "i", "d", "e", "n", "t", "s">>
      [] name = "count" -> <<"c", "o", "u", "n", "t">>
      [] name = "title" -> <<"t", "i", "t", "l", "e">>
      [] OTHER -> <<"?">>

\* str(n) of a natural number
DigitChar(d) == <<"0", "1", "2", "3", "4", "5", "6", "7", "8", "9">>[d + 1]

RECURSIVE IntText(_)
IntText(n) == IF n < 10 THEN <<DigitChar(n)>> ELSE IntText(n \div 10) \o <<DigitChar(n % 10)>>

Pad2(n) == <<DigitChar(n \div 10), DigitChar(n % 10)>>

\* the text of an ISO date string
IsoText(d) == Pad2(d.year \div 100) \o Pad2(d.year % 100) \o <<"-">> \o Pad2(d.month)
              \o <<"-">> \o Pad2(d.day)

\* sep.join(parts)
RECURSIVE Join(_, _)
Join(parts, sep) ==
    IF parts = <<>> THEN <<>>
    ELSE IF Len(parts) = 1 THEN parts[1]
    ELSE parts[1] \o sep \o Join(Tail(parts), sep)

\* str(value) of a scalar of the plan
StrOf(v) ==
    CASE v.type = "str" -> IF "iso" \in DOMAIN v THEN IsoText(v.iso) ELSE v.s
      [] v.type = "int" -> IntText(v.n)
      [] OTHER -> TxtNone

\* str.replace("'", "''")
RECURSIVE EscapeQuotes(_)
EscapeQuotes(s) ==
    IF s = <<>> THEN <<>>
    ELSE (IF Head(s) = "'" THEN <<"'", "'">> ELSE <<Head(s)>>) \o EscapeQuotes(Tail(s))

\* _format_literal(value)
FormatLiteral(value) ==
    CASE value.type = "int" -> IntText(value.n)
      [] value.type = "NoneType" -> TxtNull
      [] OTHER -> <<"'">> \o EscapeQuotes(StrOf(value)) \o <<"'">>

\* quote_identifier(dim.column)
Column(dim) == IF dim = "area" THEN TxtAreaColumn ELSE TxtWeaponColumn

\* dimension_expression(dimension_name, semantic, alias)
DimensionExpression(dim, alias) ==
    IF dim = "month"
    THEN IF alias = <<>> THEN NameText("month") ELSE alias \o <<".">> \o NameText("month")
    ELSE (IF alias = <<>> THEN <<>> ELSE alias \o <<".">>) \o <<"\"">> \o Column(dim) \o <<"\"">>

AliasBase == <<"b", "a", "s", "e">>

\* DATE '<value>'
DateLiteral(v) == <<"'">> \o StrOf(v) \o <<"'">>

\* the clauses _build_filters appends for a filter on month
MonthClause(f, alias) ==
    IF f.value.type = "list" /\ Len(f.value.items) >= 2
       /\ Truthy(f.value.items[1]) /\ Truthy(f.value.items[2])
    THEN IF \/ f.value.items[1] = f.value.items[2]
            \/ /\ ParseDate(f.value.items[1]).status = "ok"
               /\ ParseDate(f.value.items[2]).status = "ok"
               /\ ParseDate(f.value.items[1]).date = ParseDate(f.value.items[2]).date
         THEN <<DimensionExpression("month", alias) \o TxtEqDate
                \o DateLiteral(f.value.items[1])>>
         ELSE <<DimensionExpression("month", alias) \o TxtGeDate
                \o DateLiteral(f.value.items[1]) \o TxtAnd
                \o DimensionExpression("month", alias) \o TxtLtDate
                \o DateLiteral(f.value.items[2])>>
    ELSE IF f.value.type = "list" /\ f.value.items # <<>>
    THEN <<DimensionExpression("month", alias) \o TxtEqDate \o DateLiteral(f.value.items[1])>>
    ELSE IF f.value.type = "str"
    THEN <<DimensionExpression("month", alias) \o TxtEqDate \o DateLiteral(f.value)>>
    ELSE <<>>

\* _format_literal of every item of a list value
Literals(items) == [k \in 1..Len(items) |-> FormatLiteral(items[k])]

\* LOWER(expr) LIKE '<pattern, lowered>' for every truthy pattern
LikeAnyClauses(expr, items) ==
    [k \in 1..Len(SelectSeq(items, Truthy)) |->
        TxtLowerOpen \o expr \o TxtCloseLike
        \o FormatLiteral(PyStr(Lower(StrOf(SelectSeq(items, Truthy)[k]))))]

\* the clauses _build_filters appends for a filter on a dimension
DimensionClause(f, expr) ==
    IF f.op = OpIn /\ f.value.type = "list"
    THEN <<expr \o TxtIn \o Join(Literals(f.value.items), TxtComma) \o <<")">> >>
    ELSE IF f.op = OpBetween /\ f.value.type = "list" /\ Len(f.value.items) = 2
    THEN <<expr \o TxtBetween \o FormatLiteral(f.value.items[1]) \o TxtAnd
           \o FormatLiteral(f.value.items[2])>>
    ELSE IF f.op = OpLikeAny /\ f.value.type = "list"
    THEN IF SelectSeq(f.value.items, Truthy) = <<>> THEN <<>>
         ELSE << <<"(">> \o Join(LikeAnyClauses(expr, f.value.items), TxtOr) \o <<")">> >>
    ELSE <<expr \o <<" ">> \o f.op \o <<" ">> \o FormatLiteral(f.value)>>

\* the clauses of one filter: a filter on a field that is no dimension adds none
FilterClause(f, alias) ==
    IF f.field = "month" THEN MonthClause(f, alias)
    ELSE IF f.field \notin SemanticDimensions THEN <<>>
    ELSE DimensionClause(f, DimensionExpression(f.field, alias))

RECURSIVE FilterClauses(_, _)
FilterClauses(filters, alias) ==
    IF filters = <<>> THEN <<>>
    ELSE FilterClause(Head(filters), alias) \o FilterClauses(Tail(filters), alias)

\* _build_filters(filters, semantic, alias)
BuildFilters(filters, alias) ==
    IF FilterClauses(filters, alias) = <<>> THEN <<>>
    ELSE TxtWhere \o Join(FilterClauses(filters, alias), TxtAnd)

\* _build_partition_clause(group_by)
BuildPartitionClause(group_by) ==
    IF SelectSeq(group_by, LAMBDA d : d # "month") = <<>>
    THEN TxtPartitionBy \o <<"1">>
    ELSE TxtPartitionBy
         \o Join([k \in 1..Len(SelectSeq(group_by, LAMBDA d : d # "month")) |->
                     NameText(SelectSeq(group_by, LAMBDA d : d # "month")[k])], TxtComma)

\* order.get("dir", "desc").upper()
DirText(order) ==
    IF "dir" \in DOMAIN order /\ order.dir = "asc" THEN <<"A", "S", "C">>
    ELSE <<"D", "E", "S", "C">>

\* _build_order_clause(order_by)
BuildOrderClause(order_by) ==
    IF order_by = <<>> THEN <<>>
    ELSE TxtOrderBy
         \o Join([k \in 1..Len(order_by) |->
                     NameText(order_by[k].field) \o <<" ">> \o DirText(order_by[k])],
                 TxtComma)

\* "<expr> AS <dim>" for every dimension of group_by
SelectParts(group_by) ==
    [k \in 1..Len(group_by) |->
        DimensionExpression(group_by[k], AliasBase) \o TxtAs \o NameText(group_by[k])]

GroupExprs(group_by) ==
    [k \in 1..Len(group_by) |-> DimensionExpression(group_by[k], AliasBase)]

\* metric_exprs: COUNT(*) AS count for aggregate == "count" and for the
\* metrics count and *, the expression of the semantic metric otherwise
MetricExprs(aggregate, metrics) ==
    IF aggregate = "count" THEN <<TxtCountStar \o TxtAs \o NameText("count")>>
    ELSE IF metrics = <<>> THEN <<TxtCountStar \o TxtAs \o NameText("incidents")>>
    ELSE [k \in 1..Len(metrics) |->
             IF metrics[k] \in FallbackNames
             THEN TxtCountStar \o TxtAs \o NameText("count")
             ELSE TxtCountStar \o TxtAs \o NameText(metrics[k])]

\* order_by of the plan, or month ascending when there is none and month is
\* grouped by or the comparison is mom / yoy
OrderByOrDefault(order_by, group_by, compare_type) ==
    IF order_by # <<>> THEN order_by
    ELSE IF \E k \in 1..Len(group_by) : group_by[k] = "month"
    THEN <<[field |-> "month", dir |-> "asc"]>>
    ELSE IF compare_type \in {"mom", "yoy"} THEN <<[field |-> "month", dir |-> "asc"]>>
    ELSE <<>>

\* " <clause>" when the clause is not empty
Spaced(clause) == IF clause = <<>> THEN <<>> ELSE <<" ">> \o clause

LimitClause(limit) == IF limit = 0 THEN <<>> ELSE TxtLimit \o IntText(limit)

\* the plain aggregation: base_cte, agg_query, ORDER BY and LIMIT (no plan
\* carries extras.share_city)
BuildDefaultSql(aggregate, metrics, group_by, filters, order_by, limit) ==
    [status |-> "ok",
     branch |-> "default",
     text |-> TxtBaseCte \o <<" ">> \o TxtSelect
              \o Join(SelectParts(group_by) \o MetricExprs(aggregate, metrics), TxtComma)
              \o TxtFromBase
              \o Spaced(BuildFilters(filters, AliasBase))
              \o Spaced(IF group_by = <<>> THEN <<>>
                        ELSE TxtGroupBy \o Join(GroupExprs(group_by), TxtComma))
              \o Spaced(BuildOrderClause(OrderByOrDefault(order_by, group_by, None)))
              \o LimitClause(limit)]

\* agg_filters of the mom / yoy branch: every month filter replaced by the
\* internal window, which is appended when there is no month filter
RECURSIVE ReplaceMonth(_, _)
ReplaceMonth(filters, internal_window) ==
    IF filters = <<>> THEN <<>>
    ELSE <<IF Head(filters).field = "month" THEN internal_window ELSE Head(filters)>>
         \o ReplaceMonth(Tail(filters), internal_window)

AggFilters(filters, internal_window) ==
    IF internal_window = PyNone THEN filters
    ELSE IF \E k \in 1..Len(filters) : filters[k].field = "month"
    THEN ReplaceMonth(filters, internal_window)
    ELSE Append(filters, internal_window)

\* agg_group_exprs: group_exprs, and month_expr when it is not among them
AggGroupExprs(group_by) ==
    IF \E k \in 1..Len(group_by) : group_by[k] = "month" THEN GroupExprs(group_by)
    ELSE Append(GroupExprs(group_by), DimensionExpression("month", AliasBase))

\* the "compare_type in {mom, yoy}" branch of build
BuildCompareSql(compare_type, periods, internal_window, group_by, filters, order_by, limit) ==
    [status |-> "ok",
     branch |-> "mom/yoy",
     text |-> TxtBaseCte \o TxtAggregatedOpen
              \o TxtSelect
              \o Join(Append(SelectParts(group_by),
                             DimensionExpression("month", AliasBase) \o TxtAs
                             \o NameText("month"))
                      \o <<TxtCountStar \o TxtAs \o NameText("incidents")>>, TxtComma)
              \o TxtFromBase
              \o Spaced(BuildFilters(AggFilters(filters, internal_window), AliasBase))
              \o <<" ">> \o TxtGroupBy \o Join(AggGroupExprs(group_by), TxtComma)
              \o TxtRankedOpen \o IntText(periods) \o TxtOver
              \o BuildPartitionClause(group_by) \o TxtRankedClose
              \o <<" ">> \o TxtSelect
              \o (IF group_by = <<>> THEN <<>>
                  ELSE Join([k \in 1..Len(group_by) |-> NameText(group_by[k])], TxtComma)
                       \o TxtComma)
              \o TxtIncidentsCase
              \o (IF internal_window = PyNone THEN <<>>
                  ELSE Spaced(BuildFilters(MonthFilters(filters), <<>>)))
              \o Spaced(BuildOrderClause(OrderByOrDefault(order_by, group_by, compare_type)))
              \o LimitClause(limit)]

\* the month filter filt of _shift_month_filter: a list value of two or more
\* items whose first item parses is replaced by [shifted start, the month
\* after the shifted start]; any other value is appended as it is
ShiftOneMonthFilter(filt, delta) ==
    IF filt.value.type = "list" /\ Len(filt.value.items) >= 2
    THEN IF ParseDate(filt.value.items[1]).status = "ok"
         THEN [field |-> "month",
               op |-> filt.op,
               value |-> PyList(<<
                   IsoFormat(ShiftMonth(ParseDate(filt.value.items[1]).date, delta)),
                   IsoFormat(ShiftMonth(
                       ShiftMonth(ParseDate(filt.value.items[1]).date, delta), 1))>>)]
         ELSE filt
    ELSE filt

\* _shift_month_filter(filters, delta_months)
ShiftMonthFilter(filters, delta) ==
    [i \in 1..Len(filters) |->
        IF filters[i].field # "month" THEN filters[i]
        ELSE ShiftOneMonthFilter(filters[i], delta)]

\* the "_date_range" filter of an absolute baseline
DateRangeFilter(start, end) ==
    [field |-> "_date_range", op |-> OpBetween, value |-> PyList(<<start, end>>),
     raw_date |-> TRUE]

\* baseline_filters of _build_v2_compare_sql
BaselineFilters(compare_dict, filters) ==
    CASE compare_dict.baseline = "previous_period" -> ShiftMonthFilter(filters, -1)
      [] compare_dict.baseline = "same_period_last_year" -> ShiftMonthFilter(filters, -12)
      [] compare_dict.baseline = "absolute" ->
            IF Truthy(compare_dict.start) /\ Truthy(compare_dict.end)
            THEN Append(SelectSeq(filters, LAMBDA f : f.field # "month"),
                        DateRangeFilter(compare_dict.start, compare_dict.end))
            ELSE SelectSeq(filters, LAMBDA f : f.field # "month")
      [] OTHER -> filters

\* _build_v2_compare_sql(base_cte, compare_dict, filters, group_by, metrics,
\* semantic, order_by, limit): the current and the baseline CTE and their join
BuildV2CompareSql(compare_dict, filters, group_by, metrics, limit) ==
    IF \E i \in 1..Len(group_by) : group_by[i] \notin SemanticDimensions
    THEN [status |-> "KeyError"]
    ELSE [status |-> "ok",
          branch |-> "compare",
          current |-> [select |-> group_by, where |-> filters, group_by |-> group_by],
          baseline |-> [select |-> group_by,
                        where |-> BaselineFilters(compare_dict, filters),
                        group_by |-> group_by],
          join_keys |-> group_by,
          diff |-> IF compare_dict.method = "diff_abs" THEN "diff_abs" ELSE "diff_pct",
          limit |-> limit]

\* compare_dict of build: plan.get("compare") when it is a dict, {} otherwise
CompareDict(plan) ==
    IF "compare" \notin DOMAIN plan THEN [type |-> None]
    ELSE IF "d" \in DOMAIN plan.compare THEN plan.compare.d
    ELSE plan.compare

\* d.get(key)
DictGet(d, key) == IF key \in DOMAIN d THEN d[key] ELSE None

\* plan.get("order_by") or []
OrderItems(plan) == IF "order_by" \in DOMAIN plan THEN plan.order_by.items ELSE <<>>

\* build(plan, semantic): the dispatch on the v0.2 features of the plan and
\* on its comparison; limit is int(plan.get("limit", 0)). No plan carries
\* bucket or aggregate_v2.
Build(plan) ==
    IF "top_k_within_group" \in DOMAIN plan
    THEN BuildTopKWithinGroupSql(plan.top_k_within_group, plan.group_by, plan.metrics,
                                 plan.limit)
    ELSE IF /\ DictGet(CompareDict(plan), "baseline")
                  \in {"previous_period", "same_period_last_year", "absolute"}
            /\ DictGet(CompareDict(plan), "method") \in {"diff_abs", "diff_pct"}
    THEN BuildV2CompareSql(CompareDict(plan), plan.filters, plan.group_by, plan.metrics,
                           plan.limit)
    ELSE IF DictGet(CompareDict(plan), "type") \in {"mom", "yoy"}
    THEN BuildCompareSql(DictGet(CompareDict(plan), "type"),
                         IF "periods" \in DOMAIN CompareDict(plan)
                         THEN CompareDict(plan).periods ELSE 1,
                         IF DictGet(CompareDict(plan), "type") = "mom"
                            /\ "internal_window" \in DOMAIN plan
                         THEN plan.internal_window ELSE PyNone,
                         plan.group_by, plan.filters, OrderItems(plan), plan.limit)
    ELSE BuildDefaultSql(DictGet(plan, "aggregate"), plan.metrics, plan.group_by,
                         plan.filters, OrderItems(plan), plan.limit)

(***************************************************************************)
(* The query on the table: one base row per incident.                      *)
(***************************************************************************)

\* the values of the dims of a row, in the order of dims
KeyOf(row, dims) == [i \in 1..Len(dims) |-> row[dims[i]]]

\* agg: SELECT <group_by>, COUNT(*) AS <metric> FROM base GROUP BY <group_by>
Aggregate(base, agg) ==
    {[key |-> key,
      value |-> Cardinality({b \in base : KeyOf(b, agg.group_by) = key})] :
        key \in {KeyOf(b, agg.group_by) : b \in base}}

\* the columns of agg
AggColumns(agg) == {agg.select[i] : i \in 1..Len(agg.select)} \cup {agg.metric}

\* the rows of the window partition of r: equal on the first n key columns
PartitionOf(ranked, r, n) ==
    {s \in ranked : SubSeq(s.key, 1, n) = SubSeq(r.key, 1, n)}

\* the sets "WHERE rn <= k" can keep, rn being ROW_NUMBER() OVER (PARTITION
\* BY the first n columns ORDER BY the metric DESC): from every partition
\* min(k, size) rows, none smaller than a row left out; rows that tie are
\* numbered in any order
KeptByRowNumber(ranked, n, k) ==
    {kept \in SUBSET ranked :
        \A r \in ranked :
            /\ Cardinality(kept \cap PartitionOf(ranked, r, n)) =
                   IF Cardinality(PartitionOf(ranked, r, n)) < k
                   THEN Cardinality(PartitionOf(ranked, r, n)) ELSE k
            /\ \A a \in kept \cap PartitionOf(ranked, r, n),
                  b \in PartitionOf(ranked, r, n) \ kept : a.value >= b.value}

\* LIMIT n on a query without ORDER BY keeps any n rows; no clause for 0
Limited(ranked, limit) ==
    IF limit = 0 \/ Cardinality(ranked) <= limit THEN {ranked}
    ELSE {s \in SUBSET ranked : Cardinality(s) = limit}

\* the results the built query can return; ORDER BY of a name that is no
\* column of agg fails in the binder (the rank fields of TopKPlans are the
\* metric and a name that is no column)
RunTopK(q, base) ==
    IF q.status # "ok" THEN {[status |-> q.status]}
    ELSE IF q.ranked.order_by \notin AggColumns(q.agg)
    THEN {[status |-> "BinderException"]}
    ELSE {[status |-> "ok", rows |-> res] :
             res \in UNION {Limited(kept, q.limit) :
                        kept \in KeptByRowNumber(Aggregate(base, q.agg),
                                                 Len(q.ranked.partition_by),
                                                 q.where_rn_le)}}

(***************************************************************************)
(* Specification of one build() and one run of the query it built.         *)
(***************************************************************************)

\* least number of incidents in la_crime_raw
MinIncidents == 5

\* one incident per (month, area, weapon) at most
Incidents ==
    [month : {"2023-12", "2024-01"}, area : {"Central", "Harbor"},
     weapon : {"knife", "gun"}]

Tables == {t \in SUBSET Incidents : Cardinality(t) >= MinIncidents}

TopKGroupBys ==
    {<<"area">>, <<"area", "weapon">>, <<"month", "area", "weapon">>, <<"area", "title">>}

TopKPlans ==
    [metrics : {<<"incidents">>},
     group_by : TopKGroupBys,
     top_k_within_group : {TopKSpec(k, by) : k \in {1, 2}, by \in {"incidents", "total"}},
     limit : {0, 3}]

\* sql = build(plan, semantic)
BuildCall ==
    /\ tk_query = NotRun
    /\ tk_query' = Build(tk_plan)
    /\ UNCHANGED <<tk_plan, tk_base, tk_out, g_stmt, g_limit, g_out,
                   vp_nql, vp_sql, vp_stats, vp_cfg, vp_out,
                   resolverVars, nqlVars, storeVars, promoterVars, watcherVars,
                   canonVars, lockVars>>

\* executor.query(sql)
RunCall ==
    /\ tk_query # NotRun
    /\ tk_out = NotRun
    /\ tk_out' \in RunTopK(tk_query, tk_base)
    /\ UNCHANGED <<tk_plan, tk_base, tk_query, g_stmt, g_limit, g_out,
                   vp_nql, vp_sql, vp_stats, vp_cfg, vp_out,
                   resolverVars, nqlVars, storeVars, promoterVars, watcherVars,
                   canonVars, lockVars>>

InitTopK ==
    /\ StoreIdle
    /\ CanonInit
    /\ LockIdle
    /\ ResolverIdle
    /\ NqlIdle
    /\ g_stmt = None /\ g_limit = None /\ g_out = None
    /\ PlanGuardIdle
    /\ tk_plan \in TopKPlans
    /\ tk_base \in Tables
    /\ tk_query = NotRun
    /\ tk_out = NotRun

NextTopK == BuildCall \/ RunCall

SpecTopK == InitTopK /\ [][NextTopK]_vars

\* the query ran and returned rows
TopKReturned == tk_out # NotRun /\ tk_out.status = "ok"

\* the rows of the result that share the values of the leading dimensions
\* (all of group_by but the last) with row r
SameLeading(r) ==
    {s \in tk_out.rows :
        SubSeq(s.key, 1, Len(s.key) - 1) = SubSeq(r.key, 1, Len(r.key) - 1)}

\* the groups of the aggregation that share the leading values with row r
GroupsOfLeading(r) ==
    {s \in Aggregate(tk_base, tk_query.agg) :
        SubSeq(s.key, 1, Len(s.key) - 1) = SubSeq(r.key, 1, Len(r.key) - 1)}

\* C20: for a plan with top_k_within_group {k, by} and two or more group_by
\* dimensions the built query numbers the rows with ROW_NUMBER() partitioned
\* by all group_by dimensions but the last, ordered by the rank field
\* descending, and keeps rn <= k: the result has at most k rows per value of
\* the leading dimensions (and, without a LIMIT, the k largest groups of
\* each such value, not k rows in all); with one dimension the top-k is
\* global.
C20_TopKWithinGroup ==
    (tk_query # NotRun /\ tk_query.status = "ok") =>
        /\ tk_query.where_rn_le = tk_plan.top_k_within_group.k
        /\ tk_query.ranked.order_by = tk_plan.top_k_within_group.by
        /\ tk_query.ranked.dir = "DESC"
        /\ Len(tk_plan.group_by) >= 2 =>
               /\ tk_query.ranked.partition_by =
                      SubSeq(tk_plan.group_by, 1, Len(tk_plan.group_by) - 1)
               /\ TopKReturned =>
                      \A r \in tk_out.rows :
                          /\ Cardinality(SameLeading(r)) <= tk_plan.top_k_within_group.k
                          /\ \A s \in GroupsOfLeading(r) \ tk_out.rows :
                                 tk_plan.limit = 0 => s.value <= r.value
               /\ (TopKReturned /\ tk_plan.limit = 0) =>
                      \A g \in Aggregate(tk_base, tk_query.agg) :
                          \E r \in tk_out.rows : r \in GroupsOfLeading(g)
        /\ Len(tk_plan.group_by) = 1 =>
               /\ tk_query.ranked.partition_by = <<>>
               /\ TopKReturned =>
                      Cardinality(tk_out.rows) <= tk_plan.top_k_within_group.k

\* top 1 weapon within each area: one row for Central and one for Harbor,
\* two rows in all
C20_Witness ==
    /\ TopKReturned
    /\ tk_plan.group_by = <<"area", "weapon">>
    /\ tk_plan.top_k_within_group.k = 1
    /\ Cardinality(Aggregate(tk_base, tk_query.agg)) = 4
    /\ Cardinality(tk_out.rows) = 2
    /\ \A r \in tk_out.rows : Cardinality(SameLeading(r)) = 1

(***************************************************************************)
(* The request path of an NQL payload: compile_payload (validate_nql, then *)
(* compile_nql_query), then _execute_query on the compiled plan            *)
(* (resolver.resolve, sql_builder.build, guardrails.enforce).              *)
(***************************************************************************)

\* a Python str of the plan as the characters the resolver looks at
Chars(op) ==
    CASE op = "like" -> OpLike
      [] op = "ilike" -> OpILike
      [] op = "like_any" -> OpLikeAny
      [] op = "=" -> OpEq
      [] op = "in" -> OpIn
      [] op = "between" -> OpBetween
      [] op = ">=" -> <<">", "=">>
      [] OTHER -> <<>>

\* a filter dict of the compiled plan
PlanFilterDict(f) ==
    [field |-> f.field, op |-> Chars(f.op),
     value |-> IF f.field = "month" /\ f.op = "between" THEN PyList(f.value) ELSE f.value]

\* plan["compare"]: None when _compile_compare returned None
PlanCompare(compare) ==
    IF compare = PyNone THEN PyNone
    ELSE PyDict([type |-> compare.ctype, baseline |-> compare.baseline,
                 internal_window |-> compare.internal_window])

\* compile_info: metricAlias and groupBy
PlanCompileInfo(plan) ==
    PyDict([metricAlias |-> IF plan.metrics = <<>> THEN None ELSE plan.metrics[1],
            groupBy |-> plan.group_by])

\* compiled.plan as _execute_query hands it to resolver.resolve
ExecutePlan(plan) ==
    [metrics |-> plan.metrics,
     aggregate |-> PyNone,
     group_by |-> plan.group_by,
     filters |-> [k \in 1..Len(plan.filters) |-> PlanFilterDict(plan.filters[k])],
     order_by |-> PyList(plan.order_by),
     limit |-> PyInt(plan.limit),
     compare |-> PlanCompare(plan.compare),
     extras |-> PyDict([compileInfo |-> PlanCompileInfo(plan),
                        rowcap_hint |-> plan.rowcap_hint,
                        critic_pass |-> plan.critic_pass]),
     compileInfo |-> PlanCompileInfo(plan)]

\* resolved_plan = resolver.resolve(plan) in _execute_query
ExecuteResolve ==
    /\ nq_compiled # NotRun
    /\ nq_compiled.status = "ok"
    /\ rs_out = NotRun
    /\ rs_plan' = ExecutePlan(nq_compiled.plan)
    /\ rs_out' = Resolve(rs_plan')
    /\ rs_calls' = rs_out'.calls
    /\ UNCHANGED <<nqlVars, guardVars, storeVars, promoterVars, watcherVars,
                   canonVars, lockVars>>

PipelineWindows ==
    WindowChoices
    \cup { Window("single_month", IsoStr(2023, 12, 1), PyNone, FALSE, PyNone),
           Window("ytd", PyNone, PyNone, FALSE, PyNone),
           Window("ytd", IsoStr(2023, 1, 1), IsoStr(2023, 7, 1), FALSE, PyNone),
           Window("absolute", IsoStr(2023, 1, 1), IsoStr(2023, 3, 1), FALSE, PyNone),
           Window("absolute", IsoStr(2023, 1, 1), PyNone, FALSE, PyNone) }

PipelineFilters ==
    NqlFilterChoices
    \cup { <<NqlFilter("area", "ilike", PyStr(<<"%", "a", "%">>), "text_raw")>>,
           <<NqlFilter("area", "like_any",
                       PyList(<<PyStr(<<"%", "a", "%">>), PyStr(<<"z", "%">>)>>),
                       "text_raw")>>,
           <<NqlFilter("area", "=", PyStr(<<"a">>), "text")>>,
           <<NqlFilter("area", "like", PyStr(<<"%", "a", ";", "%">>), "text_raw")>>,
           <<NqlFilter("month", "=", IsoStr(2022, 5, 1), "date"),
             NqlFilter("weapon", "like", PyStr(<<"c", "%">>), "text_raw")>>,
           <<NqlFilter("month", "between",
                       PyList(<<IsoStr(2022, 5, 1), IsoStr(2022, 7, 1)>>), "date")>> }

PipelineFlags ==
    [require_grouping_for_trend |-> TRUE, quarter_exclusive_end |-> TRUE, rowcap_hint |-> 50]

PipelineQueries ==
    { NqlQuery("aggregate", <<[alias |-> "incidents"]>>, window, grouping, filters,
               compare, <<>>, 100, PipelineFlags, <<>>) :
        window \in PipelineWindows,
        grouping \in { <<<<>>, <<>>>>, <<<<"area">>, <<>>>> },
        filters \in PipelineFilters,
        compare \in CompareChoices }

InitPipeline ==
    /\ StoreIdle
    /\ CanonInit
    /\ LockIdle
    /\ ResolverIdle
    /\ GuardIdle
    /\ nq_in \in PipelineQueries
    /\ nq_out = NotRun
    /\ nq_cur = NotRun
    /\ nq_runs = 0
    /\ nq_caller = NotRun
    /\ nq_compiled = NotRun

\* sql = sql_builder.build(resolved_plan, semantic) in _execute_query
ExecuteBuild ==
    /\ rs_out # NotRun
    /\ rs_out.status = "ok"
    /\ tk_query = NotRun
    /\ tk_plan' = rs_out.plan
    /\ tk_query' = Build(rs_out.plan)
    /\ UNCHANGED <<tk_base, tk_out, g_stmt, g_limit, g_out,
                   vp_nql, vp_sql, vp_stats, vp_cfg, vp_out,
                   resolverVars, nqlVars, storeVars, promoterVars, watcherVars,
                   canonVars, lockVars>>

\* guardrails.enforce(sql, resolved_plan) in _execute_query
ExecuteEnforce ==
    /\ tk_query # NotRun
    /\ tk_query.status = "ok"
    /\ g_out = None
    /\ g_stmt' = tk_query
    /\ g_limit' = tk_plan.limit
    /\ g_out' = Enforce(tk_query.text, tk_plan.limit)
    /\ UNCHANGED <<tk_plan, tk_base, tk_query, tk_out,
                   vp_nql, vp_sql, vp_stats, vp_cfg, vp_out,
                   resolverVars, nqlVars, storeVars, promoterVars, watcherVars,
                   canonVars, lockVars>>

NextPipeline == ValidateFirst \/ Compile \/ ExecuteResolve \/ ExecuteBuild \/ ExecuteEnforce

SpecPipeline == InitPipeline /\ [][NextPipeline]_vars

\* resolve() has been called on the compiled plan
Resolved == rs_out # NotRun

\* filter i of the compiled plan is a LIKE-family filter the validator
\* accepted (type text_raw is what the like_passthrough pass checked)
IsLikeFamily(i) ==
    /\ rs_plan.filters[i].field # "month"
    /\ rs_plan.filters[i].op \in {OpLike, OpILike, OpLikeAny}

\* C21: a LIKE-family filter the validator accepted (like, ilike, like_any
\* with type text_raw) is never resolved as a categorical value: through
\* compile_payload and PlanResolver.resolve its value reaches the resolved
\* plan verbatim and no executor lookup is made for it.
C21_LikeFamilyPassthrough ==
    Resolved =>
        \A i \in 1..Len(rs_plan.filters) :
            IsLikeFamily(i) =>
                /\ CallsFor(i) = {}
                /\ rs_out.status = "ok" =>
                       /\ rs_out.plan.filters[i].op = rs_plan.filters[i].op
                       /\ rs_out.plan.filters[i].value = rs_plan.filters[i].value

\* compile_nql_query has returned a plan
Compiled == nq_compiled # NotRun /\ nq_compiled.status = "ok"

\* C22: the NQLQuery is immutable once validated: compile_nql_query leaves
\* every field of the validated query as validate_nql returned it (end and
\* exclusive_end of a single_month window included), so the nql that
\* compile_payload returns equals the output of validate_nql.
C22_CompileLeavesNqlUnchanged ==
    Compiled => nq_compiled.nql = nq_out.nql

(***************************************************************************)
(* Canonicalizer.load: where the new mapping is built                      *)
(***************************************************************************)

\* thread t holds the lock and has still to copy the mappings it was given
CopiesUnderLock(t) == c_lock = t /\ lpc[t] = "locked"

\* reader r is inside resolve() or version, waiting for the lock
WaitsForLock(r) == rpc[r] = "acquire" /\ ~LockFree(r)

\* C23: load() builds the new mapping completely before it takes the lock
\* and holds the lock only for the swap of (version, mapping): no concurrent
\* resolve() waits for the lock while load() copies the mappings.
C23_BuildsBeforeLocking ==
    \A t \in LoadThreads, r \in Readers : ~(CopiesUnderLock(t) /\ WaitsForLock(r))


(***************************************************************************)
(* The baseline window of a comparison with baseline and method            *)
(***************************************************************************)

\* compare of a plan: baseline, method and the bounds of an absolute baseline
V2Compare(baseline, method, start, end) ==
    [baseline |-> baseline, method |-> method, start |-> start, end |-> end]

MonthRange(start, end) ==
    [field |-> "month", op |-> OpBetween, value |-> PyList(<<start, end>>)]

\* the month filters of a resolved plan: a single month as a range, a
\* quarter, a range across the year end, and a single month as "="
CurrentMonthFilters ==
    { MonthRange(IsoStr(2024, 1, 1), IsoStr(2024, 2, 1)),
      MonthRange(IsoStr(2023, 10, 1), IsoStr(2024, 1, 1)),
      MonthRange(IsoStr(2023, 12, 1), IsoStr(2024, 3, 1)),
      [field |-> "month", op |-> OpEq, value |-> IsoStr(2024, 1, 1)] }

AreaFilter == [field |-> "area", op |-> OpEq, value |-> PyStr(<<"C">>)]

CompareFilterChoices ==
    UNION {{<<mf>>, <<AreaFilter, mf>>, <<mf, AreaFilter>>} : mf \in CurrentMonthFilters}

ComparePlans ==
    [metrics : {<<"incidents">>},
     group_by : {<<>>, <<"area">>},
     filters : CompareFilterChoices,
     compare : {V2Compare(b, m, PyNone, PyNone) :
                    b \in {"previous_period", "same_period_last_year"},
                    m \in {"diff_abs", "diff_pct"}}
               \cup {V2Compare("absolute", "diff_pct", IsoStr(2023, 1, 1), IsoStr(2023, 6, 1))},
     limit : {0, 3}]

InitCompare ==
    /\ StoreIdle
    /\ CanonInit
    /\ LockIdle
    /\ ResolverIdle
    /\ NqlIdle
    /\ g_stmt = None /\ g_limit = None /\ g_out = None
    /\ PlanGuardIdle
    /\ tk_plan \in ComparePlans
    /\ tk_base = None
    /\ tk_query = NotRun
    /\ tk_out = NotRun

NextCompare == BuildCall

SpecCompare == InitCompare /\ [][NextCompare]_vars

\* build() returned the SQL of a comparison against a shifted baseline
CompareBuilt ==
    /\ tk_query # NotRun
    /\ tk_query.status = "ok"
    /\ tk_plan.compare.baseline \in {"previous_period", "same_period_last_year"}

\* the months the baseline lies before the current window
BaselineDelta == IF tk_plan.compare.baseline = "previous_period" THEN 1 ELSE 12

\* the first day of the month n months before the month of d, by the calendar
RECURSIVE MonthsBefore(_, _)
MonthsBefore(d, n) == IF n = 0 THEN d ELSE MonthsBefore(PreviousMonthStart(d), n - 1)

\* [start, end) of a month filter: "=" on a month is that month
FilterWindow(f) ==
    IF f.value.type = "list"
    THEN [start |-> f.value.items[1].iso, end |-> f.value.items[2].iso]
    ELSE [start |-> f.value.iso, end |-> NextMonthStart(f.value.iso)]

\* C24: in the compare branch with baseline and method, every month filter
\* of the baseline CTE is the current one with its start and its end both
\* shifted back by 1 month (previous_period) or 12 months
\* (same_period_last_year), and every other filter is the same in both CTEs.
C24_BaselineShiftsStartAndEnd ==
    CompareBuilt =>
        \A i \in 1..Len(tk_query.current.where) :
            IF tk_query.current.where[i].field # "month"
            THEN tk_query.baseline.where[i] = tk_query.current.where[i]
            ELSE /\ tk_query.baseline.where[i].field = "month"
                 /\ FilterWindow(tk_query.baseline.where[i]) =
                        [start |-> MonthsBefore(FilterWindow(tk_query.current.where[i]).start,
                                                BaselineDelta),
                         end |-> MonthsBefore(FilterWindow(tk_query.current.where[i]).end,
                                              BaselineDelta)]

\* the positions of the filters on month in the compiled plan
CompiledMonthFilters ==
    {k \in 1..Len(nq_compiled.plan.filters) : nq_compiled.plan.filters[k].field = "month"}

\* the filters of the query that are not on month, as compiled
OtherFiltersKept ==
    SelectSeq(nq_compiled.plan.filters, LAMBDA f : f.field # "month") =
        [k \in 1..Len(SelectSeq(nq_out.nql.filters, LAMBDA f : f.field # "month")) |->
            [field |-> SelectSeq(nq_out.nql.filters, LAMBDA f : f.field # "month")[k].field,
             op |-> SelectSeq(nq_out.nql.filters, LAMBDA f : f.field # "month")[k].op,
             value |-> SelectSeq(nq_out.nql.filters, LAMBDA f : f.field # "month")[k].value]]

\* C25: for every window type the compiled plan has exactly one filter on
\* month, the lowered time window, whose op is "between" or "="; a filter on
\* month given in nql.filters is dropped.
C25_OneMonthFilterBetweenOrEq ==
    Compiled =>
        /\ Cardinality(CompiledMonthFilters) = 1
        /\ CompiledMonthFilters = {Len(nq_compiled.plan.filters)}
        /\ OtherFiltersKept
        /\ nq_compiled.plan.filters[Len(nq_compiled.plan.filters)].op \in {"between", "="}


(***************************************************************************)
(* Version label and content of the cache                                  *)
(***************************************************************************)

\* the key promote() call p writes, as load_mappings() folds it
PromotedKey(p) == <<PromoteArgs(p).dim, Normalise(PromoteArgs(p).synonym)>>

\* the canonicals promoted for the key of p, by p or by a call on the same key
PromotedFor(p) ==
    {PromoteArgs(q).canonical : q \in {r \in Promoters : PromotedKey(r) = PromotedKey(p)}}

\* the cache holds the effect of p: its key maps to a canonical promoted for it
CacheHolds(p) ==
    \E t \in c_mappings :
        /\ <<t[1], t[2]>> = PromotedKey(p)
        /\ t[3] \in PromotedFor(p)

\* promote() call p has returned
HasReturned(p) == pret[p] # 0

\* the cache holds every promotion that returned a version up to its own
LabelNotAheadOfData ==
    \A p \in Promoters : (HasReturned(p) /\ pret[p] <= c_version) => CacheHolds(p)

\* a loaded cache with the version of the store holds every returned promotion
EqualVersionIsFresh ==
    (c_version # 0 /\ c_version = meta_v) =>
        \A p \in Promoters : HasReturned(p) => CacheHolds(p)

\* C26: the cache is never labelled with a version newer than its data: it
\* holds the effect of every promotion that returned a version up to the
\* cached one, so a cache whose version equals the store version is not stale.
C26_CacheLabelNotNewerThanData == LabelNotAheadOfData /\ EqualVersionIsFresh


(***************************************************************************)
(* resolve -> build -> enforce of _execute_query                           *)
(***************************************************************************)

\* enforce() has been called on the SQL build() made of the resolved plan
Enforced == g_out # None

\* C27: enforce accepts every SQL text build produces for a plan returned by
\* resolve: the pipeline never raises GuardrailError on the builder's output.
C27_BuilderOutputPassesEnforce == Enforced => g_out = "returned"

\* the SQL text holds no semicolon
NoSemicolonBuilt == Enforced /\ ~HasChar(tk_query.text, ";")


(***************************************************************************)
(* CanonicalWatcher.start() and stop(), called one after the other by one  *)
(* thread, and the threads they create. A thread is either blocked in      *)
(* self._stop.wait(self._interval) or inside the body of the loop of _run. *)
(***************************************************************************)

\* Thread.is_alive()
IsAlive(t) == tpc[t] \in {"waiting", "polling"}

\* the Thread object start() creates next
NextThread == CHOOSE t \in WatcherThreads : tpc[t] = "unborn" /\ \A u \in WatcherThreads : tpc[u] = "unborn" => t <= u

\* start(): _initial_load(), self._stop.clear(), a new thread is created and
\* started. start() returns at once while self._thread is alive, and an
\* exception of _initial_load leaves it before anything is assigned.
StartCall ==
    /\ w_caller = "idle"
    /\ ~(w_thread # NoThread /\ IsAlive(w_thread))
    /\ storeUp
    /\ \E t \in WatcherThreads : tpc[t] = "unborn"
    /\ CanonLoad(LoadMappings(rows), GetVersion)
    /\ w_stop' = FALSE
    /\ w_thread' = NextThread
    /\ tpc' = [tpc EXCEPT ![NextThread] = "waiting"]
    /\ UNCHANGED <<w_caller, w_asked, w_resumed, wpc, wversion, wmappings,
                   storeVars, promoterVars, lockVars, requestVars>>

\* stop(): self._stop.set(), then self._thread.join(timeout) begins
StopCall ==
    /\ w_caller = "idle"
    /\ w_thread # NoThread
    /\ w_stop' = TRUE
    /\ w_asked' = w_asked \cup {w_thread}
    /\ w_caller' = "joining"
    /\ UNCHANGED <<w_thread, tpc, w_resumed, wpc, wversion, wmappings,
                   storeVars, promoterVars, canonVars, lockVars, requestVars>>

\* stop(): join returns because the thread has ended; self._thread = None
StopJoined ==
    /\ w_caller = "joining"
    /\ ~IsAlive(w_thread)
    /\ w_thread' = NoThread
    /\ w_caller' = "idle"
    /\ UNCHANGED <<w_stop, tpc, w_asked, w_resumed, wpc, wversion, wmappings,
                   storeVars, promoterVars, canonVars, lockVars, requestVars>>

\* stop(): join(timeout=self._interval * 2) returns after the timeout while
\* the thread is still inside the body of its loop; self._thread = None
StopJoinTimeout ==
    /\ w_caller = "joining"
    /\ tpc[w_thread] = "polling"
    /\ w_thread' = NoThread
    /\ w_caller' = "idle"
    /\ UNCHANGED <<w_stop, tpc, w_asked, w_resumed, wpc, wversion, wmappings,
                   storeVars, promoterVars, canonVars, lockVars, requestVars>>

\* _run: "while not self._stop.wait(self._interval)" is evaluated
ThreadWake(t) ==
    /\ tpc[t] = "waiting"
    /\ tpc' = [tpc EXCEPT ![t] = IF w_stop THEN "ended" ELSE "polling"]
    /\ w_resumed' = IF ~w_stop /\ t \in w_asked THEN w_resumed \cup {t} ELSE w_resumed
    /\ UNCHANGED <<w_thread, w_stop, w_caller, w_asked, wpc, wversion, wmappings,
                   storeVars, promoterVars, canonVars, lockVars, requestVars>>

\* _run: the body of the loop: get_version(), and load_mappings() and
\* canonicalizer.load() when the version differs; an exception of the store
\* ends the thread
ThreadPoll(t) ==
    /\ tpc[t] = "polling"
    /\ IF storeUp /\ GetVersion # c_version
       THEN CanonLoad(LoadMappings(rows), GetVersion)
       ELSE UNCHANGED canonVars
    /\ tpc' = [tpc EXCEPT ![t] = IF storeUp THEN "waiting" ELSE "ended"]
    /\ UNCHANGED <<w_thread, w_stop, w_caller, w_asked, w_resumed, wpc, wversion,
                   wmappings, storeVars, promoterVars, lockVars, requestVars>>

NextLifecycle ==
    \/ StartCall
    \/ StopCall
    \/ StopJoined
    \/ StopJoinTimeout
    \/ \E t \in WatcherThreads : ThreadWake(t) \/ ThreadPoll(t)
    \/ StoreDown
    \/ StoreUp

SpecLifecycle == Init /\ [][NextLifecycle]_vars

\* the threads that are running and were not asked to stop
PollingThreads == {t \in WatcherThreads : IsAlive(t) /\ t \notin w_asked}

\* C28: after any sequence of start() and stop() calls at most one polling
\* thread is running, and a thread that was asked to stop never polls again.
C28_OnePollingThread ==
    /\ Cardinality(PollingThreads) <= 1
    /\ w_resumed = {}


(***************************************************************************)
(* validate_plan on the serialized form of an NQLQuery                     *)
(***************************************************************************)

\* nql["time"] is a serialized TimeSpec: the bounds are those of its window
SerializedTime == "window" \in DOMAIN vp_nql.time

\* the window of the serialized TimeSpec has start < end and a span within
\* MAX_TIME_RANGE_YEARS * 366 days
WellFormedWindow ==
    /\ FromIsoOk(vp_nql.time.window.start)
    /\ FromIsoOk(vp_nql.time.window.end)
    /\ Before(vp_nql.time.window.start.iso, vp_nql.time.window.end.iso)
    /\ ToOrdinal(vp_nql.time.window.end.iso) - ToOrdinal(vp_nql.time.window.start.iso)
           <= DefaultConfig(vp_cfg).MAX_TIME_RANGE_YEARS * 366

\* C29: a query in its serialized form (time = {grain, window{start, end}})
\* with a well-formed window and SQL without SELECT * is not blocked by the
\* time sanity check.
C29_SerializedWindowNotBlocked ==
    (PlanChecked /\ SerializedTime /\ WellFormedWindow) =>
        \A k \in 1..Len(vp_out.diagnostics) : vp_out.diagnostics[k].type # "ambiguous_time"


(***************************************************************************)
(* validate_plan applied to its own effective_nql                          *)
(***************************************************************************)

\* the first call returned decision "allow" or "rewrite"
NotBlocked == vp_out # NotRun /\ vp_out.decision \in {"allow", "rewrite"}

\* validate_plan(result["effective_nql"], sql, preview_stats, config)
ValidatedAgain == ValidatePlan(vp_out.effective_nql, SqlText(vp_sql), vp_stats, vp_cfg)

\* C30: validate_plan is idempotent on its own output: with the same sql,
\* preview_stats and config, the effective_nql of an allow or rewrite
\* decision comes back unchanged from a second call.
C30_ValidatePlanIdempotent ==
    NotBlocked => ValidatedAgain.effective_nql = vp_out.effective_nql

====
